---- MODULE Spec2Model ----
(***************************************************************************)
(* Oxford Vocabulary Trainer: the adaptive word picker (word_picker.py)    *)
(* with its JSON persistence (utils.py).                                   *)
(*                                                                         *)
(* Strings are sequences of one-character strings, so that the composite   *)
(* key f"{word}_{class}_{level}" and str.lower() are computed, not assumed.*)
(* Weights are held in thousandths (1.0 is 1000): every factor of the      *)
(* adaptive algorithm has one decimal, so a product of three factors is a  *)
(* whole number of thousandths.  The accuracy brackets compare the         *)
(* rational correct/total with 4/5, 3/5 and 2/5; for the counter sizes of  *)
(* the model the correctly rounded float quotient compares the same way.   *)
(***************************************************************************)
EXTENDS Integers, Sequences, FiniteSets, TLC

VARIABLES
    pc,            \* "boot" before WordPicker.__init__, "ready" after it,
                   \* "crashed" once an exception has left the word picker
    data_df,       \* the vocabulary rows, in DataFrame order
    word_weights,  \* WordPicker.word_weights: key -> record
    file,          \* content of the weights JSON file, or NoFile
    call,          \* the last call, its arguments and what its save did
    ret,           \* the value that call returned
    save_failures, \* number of failed saves so far
    game           \* OxfordVocabGame: position in _play_game, the session
                   \* bookkeeping and the translator's cache

vars == <<pc, data_df, word_weights, file, call, ret, save_failures, game>>

----------------------------------------------------------------------------
(* Bounds *)

MaxOutcomes == 10       \* recorded outcomes held by the store, Spec
MaxDrawOutcomes == 3    \* the same, SpecDraw
MaxSaveFailures == 1
MaxInputLen == 4        \* characters of a typed answer, SpecValidate
MaxMeanings == 2        \* accepted meanings of one word, SpecValidate
MaxLimit == 2           \* the limit argument of the word lists, SpecStats
MaxGameOutcomes == 3    \* recorded outcomes held by the store, SpecGame
MaxSessions == 1        \* sessions ended in one run, SpecGame
MaxScoreOutcomes == 2   \* recorded outcomes held by the store, SpecScores
MaxScoreSessions == 2   \* sessions ended in one run, SpecScores
MaxRetries == 3         \* the retry count of a translator, SpecTranslate

----------------------------------------------------------------------------
(* Strings *)

None == "None"          \* the value of last_seen before the first outcome
Timestamp == "ts"       \* pd.Timestamp.now().isoformat(), abstracted to one value
NoLevel == <<>>         \* level None or "": both are false in "if level:"
NotFound == <<>>        \* get_weighted_word returning None

LowerChar(c) ==
    CASE c = "A" -> "a"
      [] c = "B" -> "b"
      [] c = "C" -> "c"
      [] c = "N" -> "n"
      [] c = "T" -> "t"
      [] OTHER -> c

lower(s) == [i \in 1..Len(s) |-> LowerChar(s[i])]

\* str.strip(): leading and trailing whitespace removed
RECURSIVE lstrip(_)
lstrip(s) == IF s # <<>> /\ s[1] = " " THEN lstrip(Tail(s)) ELSE s

RECURSIVE rstrip(_)
rstrip(s) ==
    IF s # <<>> /\ s[Len(s)] = " " THEN rstrip(SubSeq(s, 1, Len(s) - 1)) ELSE s

strip(s) == rstrip(lstrip(s))

\* str.split() without argument: the maximal runs of non-whitespace, in order
RECURSIVE split(_)
split(s) ==
    LET t == lstrip(s)
        stops == {i \in 1..Len(t) : t[i] = " "} \cup {Len(t) + 1}
        n == CHOOSE i \in stops : \A j \in stops : i <= j
    IN  IF t = <<>> THEN <<>>
        ELSE <<SubSeq(t, 1, n - 1)>> \o split(SubSeq(t, n + 1, Len(t)))

set(words) == {words[i] : i \in 1..Len(words)}

word_key(word, class, level) == word \o <<"_">> \o class \o <<"_">> \o level

----------------------------------------------------------------------------
(* Vocabulary *)

A1 == <<"a", "1">>
B1 == <<"b", "1">>
C2 == <<"c", "2">>

Row(w, c, l) == [word |-> w, class |-> c, level |-> l]

GoVerb == Row(<<"g", "o">>, <<"v">>, A1)
CatNoun == Row(<<"c", "a", "t">>, <<"n">>, B1)

Entries == {GoVerb, CatNoun}

Vocabularies == { <<GoVerb, CatNoun>>, <<GoVerb, GoVerb>> }

LevelFilters == { NoLevel, <<"A", "1">>, B1, C2 }

RowKey(row) == word_key(row.word, row.class, row.level)

----------------------------------------------------------------------------
(* Records and the adaptive weight *)

DefaultRecord ==
    [ weight |-> 1000,
      correct_count |-> 0,
      wrong_count |-> 0,
      total_attempts |-> 0,
      last_seen |-> None,
      consecutive_correct |-> 0,
      consecutive_wrong |-> 0 ]

Max(a, b) == IF a >= b THEN a ELSE b
Min(a, b) == IF a <= b THEN a ELSE b

\* Variant: the highest base weight is 1.5
base_weight_mild(stats) ==
    IF 5 * stats.correct_count >= 4 * stats.total_attempts THEN 3
    ELSE IF 5 * stats.correct_count >= 3 * stats.total_attempts THEN 7
    ELSE IF 5 * stats.correct_count >= 2 * stats.total_attempts THEN 12
    ELSE 15

\* Variant: the two middle brackets carry each other's base weight
base_weight_swapped(stats) ==
    IF 5 * stats.correct_count >= 4 * stats.total_attempts THEN 3
    ELSE IF 5 * stats.correct_count >= 3 * stats.total_attempts THEN 12
    ELSE IF 5 * stats.correct_count >= 2 * stats.total_attempts THEN 7
    ELSE 20

\* Variant: the best accuracy bracket weighs as the second
base_weight_flat(stats) ==
    IF 5 * stats.correct_count >= 3 * stats.total_attempts THEN 7
    ELSE IF 5 * stats.correct_count >= 2 * stats.total_attempts THEN 12
    ELSE 20

base_weight(stats) ==
    IF 5 * stats.correct_count >= 4 * stats.total_attempts THEN 3
    ELSE IF 5 * stats.correct_count >= 3 * stats.total_attempts THEN 7
    ELSE IF 5 * stats.correct_count >= 2 * stats.total_attempts THEN 12
    ELSE 20

\* Variant: the correct streak counts from the fourth outcome
consecutive_modifier_late(stats) ==
    IF stats.consecutive_correct > 3 THEN 5
    ELSE IF stats.consecutive_wrong >= 2 THEN 25
    ELSE 10

consecutive_modifier(stats) ==
    IF stats.consecutive_correct >= 3 THEN 5
    ELSE IF stats.consecutive_wrong >= 2 THEN 25
    ELSE 10

\* Variant: the new-word boost ends one attempt early
attempt_modifier_strict(stats) ==
    IF stats.total_attempts < 3 THEN 12
    ELSE IF stats.total_attempts >= 10 THEN 9
    ELSE 10

attempt_modifier(stats) ==
    IF stats.total_attempts <= 3 THEN 12
    ELSE IF stats.total_attempts >= 10 THEN 9
    ELSE 10

\* Variant: the product is returned without the final clamp
_calculate_adaptive_weight_unclamped(stats) ==
    IF stats.total_attempts = 0 THEN 1000
    ELSE base_weight(stats) * consecutive_modifier(stats) * attempt_modifier(stats)

_calculate_adaptive_weight(stats) ==
    IF stats.total_attempts = 0 THEN 1000
    ELSE Max(100, Min(5000,
             base_weight(stats) * consecutive_modifier(stats)
                                * attempt_modifier(stats)))

\* Variant: a wrong outcome is not counted in wrong_count
UpdatedStats_wrong_uncounted(stats, is_correct) ==
    LET seen == [stats EXCEPT !.total_attempts = @ + 1,
                              !.last_seen = Timestamp]
        counted ==
            IF is_correct
            THEN [seen EXCEPT !.correct_count = @ + 1,
                              !.consecutive_correct = @ + 1,
                              !.consecutive_wrong = 0]
            ELSE [seen EXCEPT !.consecutive_wrong = @ + 1,
                              !.consecutive_correct = 0]
    IN  [counted EXCEPT !.weight = _calculate_adaptive_weight(counted)]

\* Variant: a correct outcome leaves consecutive_wrong as it was
UpdatedStats_wrong_streak_kept(stats, is_correct) ==
    LET seen == [stats EXCEPT !.total_attempts = @ + 1,
                              !.last_seen = Timestamp]
        counted ==
            IF is_correct
            THEN [seen EXCEPT !.correct_count = @ + 1,
                              !.consecutive_correct = @ + 1]
            ELSE [seen EXCEPT !.wrong_count = @ + 1,
                              !.consecutive_wrong = @ + 1,
                              !.consecutive_correct = 0]
    IN  [counted EXCEPT !.weight = _calculate_adaptive_weight(counted)]

\* Variant: a wrong outcome leaves consecutive_correct as it was
UpdatedStats_correct_streak_kept(stats, is_correct) ==
    LET seen == [stats EXCEPT !.total_attempts = @ + 1,
                              !.last_seen = Timestamp]
        counted ==
            IF is_correct
            THEN [seen EXCEPT !.correct_count = @ + 1,
                              !.consecutive_correct = @ + 1,
                              !.consecutive_wrong = 0]
            ELSE [seen EXCEPT !.wrong_count = @ + 1,
                              !.consecutive_wrong = @ + 1]
    IN  [counted EXCEPT !.weight = _calculate_adaptive_weight(counted)]

UpdatedStats(stats, is_correct) ==
    LET seen == [stats EXCEPT !.total_attempts = @ + 1,
                              !.last_seen = Timestamp]
        counted ==
            IF is_correct
            THEN [seen EXCEPT !.correct_count = @ + 1,
                              !.consecutive_correct = @ + 1,
                              !.consecutive_wrong = 0]
            ELSE [seen EXCEPT !.wrong_count = @ + 1,
                              !.consecutive_wrong = @ + 1,
                              !.consecutive_correct = 0]
    IN  [counted EXCEPT !.weight = _calculate_adaptive_weight(counted)]

\* A record read from the file may lack fields.  update_word_performance
\* reads and writes the fields one statement at a time; reading a missing
\* field raises KeyError and leaves the earlier writes in place.
CounterFields ==
    { "correct_count", "wrong_count", "total_attempts",
      "consecutive_correct", "consecutive_wrong" }

WellFormed(r) == DOMAIN r = CounterFields \cup {"weight", "last_seen"}

SetField(r, f, v) == [x \in DOMAIN r \cup {f} |-> IF x = f THEN v ELSE r[x]]

Without(r, f) == [x \in DOMAIN r \ {f} |-> r[x]]

Raise(r) == [rec |-> r, raised |-> TRUE]

AttemptedStats(stats, is_correct) ==
    LET count == IF is_correct THEN "correct_count" ELSE "wrong_count"
        streak == IF is_correct THEN "consecutive_correct" ELSE "consecutive_wrong"
        other == IF is_correct THEN "consecutive_wrong" ELSE "consecutive_correct"
    IN  IF "total_attempts" \notin DOMAIN stats THEN Raise(stats)
        ELSE LET r1 == SetField(SetField(stats, "total_attempts",
                                         stats.total_attempts + 1),
                                "last_seen", Timestamp)
             IN  IF count \notin DOMAIN r1 THEN Raise(r1)
                 ELSE LET r2 == SetField(r1, count, r1[count] + 1)
                      IN  IF streak \notin DOMAIN r2 THEN Raise(r2)
                          ELSE LET r3 == SetField(SetField(r2, streak, r2[streak] + 1),
                                                  other, 0)
                               IN  IF "correct_count" \notin DOMAIN r3 THEN Raise(r3)
                                   ELSE [rec |-> SetField(r3, "weight",
                                                    _calculate_adaptive_weight(r3)),
                                         raised |-> FALSE]

----------------------------------------------------------------------------
(* Stores *)

EmptyStore == [k \in {} |-> DefaultRecord]

Put(store, k, rec) ==
    [x \in DOMAIN store \cup {k} |-> IF x = k THEN rec ELSE store[x]]

\* The weights file: absent, holding a stored mapping, or cut short by a
\* write that failed after open(filepath, 'w') had truncated it
NoFile == [exists |-> FALSE, valid |-> FALSE, data |-> EmptyStore]
FileOf(store) == [exists |-> TRUE, valid |-> TRUE, data |-> store]
TornFile == [exists |-> TRUE, valid |-> FALSE, data |-> EmptyStore]

\* A missing file and a JSONDecodeError both give the default {}
load_json_file(f) == IF f.exists /\ f.valid THEN f.data ELSE EmptyStore

\* Variant: every vocabulary row gets a default record, present or not
RECURSIVE InitializedFrom_overwriting(_, _, _)
InitializedFrom_overwriting(store, rows, i) ==
    IF i > Len(rows) THEN store
    ELSE InitializedFrom_overwriting(Put(store, RowKey(rows[i]), DefaultRecord),
                                     rows, i + 1)

RECURSIVE InitializedFrom(_, _, _)
InitializedFrom(store, rows, i) ==
    IF i > Len(rows) THEN store
    ELSE IF RowKey(rows[i]) \in DOMAIN store
         THEN InitializedFrom(store, rows, i + 1)
         ELSE InitializedFrom(Put(store, RowKey(rows[i]), DefaultRecord),
                              rows, i + 1)

RECURSIVE SumAttempts(_, _)
SumAttempts(store, keys) ==
    IF keys = {} THEN 0
    ELSE LET k == CHOOSE x \in keys : TRUE
         IN  (IF "total_attempts" \in DOMAIN store[k]
              THEN store[k].total_attempts ELSE 0)
                 + SumAttempts(store, keys \ {k})

Once == UpdatedStats(DefaultRecord, TRUE)
TwiceWrong == UpdatedStats(UpdatedStats(DefaultRecord, FALSE), FALSE)

\* Files whose records lack fields (edited by hand, or written by another
\* version of the program)
MalformedFiles ==
    { FileOf(Put(EmptyStore, RowKey(GoVerb), [weight |-> 1000])),
      FileOf(Put(EmptyStore, RowKey(GoVerb), Without(DefaultRecord, "correct_count"))),
      FileOf(Put(EmptyStore, RowKey(GoVerb), Without(Once, "wrong_count"))),
      FileOf(Put(EmptyStore, RowKey(CatNoun), Without(TwiceWrong, "weight"))) }

StoredFiles ==
    { NoFile,
      TornFile,
      FileOf(Put(EmptyStore, RowKey(GoVerb), Once)),
      FileOf(Put(EmptyStore, RowKey(CatNoun), TwiceWrong)) }

----------------------------------------------------------------------------
(* Persistence: save_json_file writes the whole store, or fails before the   *)
(* file is opened (makedirs, open), or fails in json.dump or on closing,    *)
(* after open(filepath, 'w') has emptied the file.  Every failure is caught *)
(* and reported as False.                                                   *)

Saved == "saved"
Refused == "refused"
Torn == "torn"
NoSave == "none"        \* the call did not reach _save_weights

SaveOutcomes ==
    IF save_failures < MaxSaveFailures THEN {Saved, Refused, Torn} ELSE {Saved}

\* Variant: the store is written as it was before the call changed it
_save_weights_stale(store, ok) ==
    /\ file' = CASE ok = Saved -> FileOf(word_weights)
                 [] ok = Refused -> file
                 [] ok = Torn -> TornFile
    /\ save_failures' = IF ok = Saved THEN save_failures ELSE save_failures + 1

_save_weights(store, ok) ==
    /\ file' = CASE ok = Saved -> FileOf(store)
                 [] ok = Refused -> file
                 [] ok = Torn -> TornFile
    /\ save_failures' = IF ok = Saved THEN save_failures ELSE save_failures + 1

\* No game session: the main menu
NoGame == [at |-> "menu"]

----------------------------------------------------------------------------
(* Operations *)

Init ==
    /\ pc = "boot"
    /\ data_df \in Vocabularies
    /\ file \in StoredFiles
    /\ word_weights = EmptyStore
    /\ call = [op |-> "none"]
    /\ ret = NotFound
    /\ save_failures = 0
    /\ game = NoGame

\* WordPicker.__init__: load the store, then _initialize_new_words
__init__(ok) ==
    /\ pc = "boot"
    /\ LET loaded == load_json_file(file)
           store == InitializedFrom(loaded, data_df, 1)
       IN  /\ word_weights' = store
           /\ IF DOMAIN store # DOMAIN loaded
              THEN /\ _save_weights(store, ok)
                   /\ call' = [op |-> "__init__", save |-> ok]
              ELSE /\ ok = Saved
                   /\ call' = [op |-> "__init__", save |-> NoSave]
                   /\ UNCHANGED <<file, save_failures>>
    /\ pc' = "ready"
    /\ ret' = NotFound
    /\ UNCHANGED data_df

\* Variant: the filter is compared as typed
Candidates_case_sensitive(level) ==
    IF level # NoLevel
    THEN { i \in 1..Len(data_df) : data_df[i].level = level }
    ELSE 1..Len(data_df)

Candidates(level) ==
    IF level # NoLevel
    THEN { i \in 1..Len(data_df) : data_df[i].level = lower(level) }
    ELSE 1..Len(data_df)

RowWeight(row) ==
    IF /\ RowKey(row) \in DOMAIN word_weights
       /\ "weight" \in DOMAIN word_weights[RowKey(row)]
    THEN word_weights[RowKey(row)].weight
    ELSE 1000

\* Variant: the draw stamps last_seen on the record of the drawn word
get_weighted_word_touching(level) ==
    /\ pc = "ready"
    /\ call' = [op |-> "get_weighted_word", level |-> level]
    /\ IF Candidates(level) = {}
       THEN ret' = NotFound /\ UNCHANGED word_weights
       ELSE \E i \in Candidates(level) :
                /\ ret' = <<data_df[i].word, data_df[i].class, data_df[i].level>>
                /\ word_weights' = Put(word_weights, RowKey(data_df[i]),
                        [word_weights[RowKey(data_df[i])] EXCEPT !.last_seen = Timestamp])
    /\ UNCHANGED <<pc, data_df, file, save_failures>>

get_weighted_word(level) ==
    /\ pc = "ready"
    /\ call' = [op |-> "get_weighted_word", level |-> level]
    /\ IF Candidates(level) = {}
       THEN ret' = NotFound
       ELSE LET positive == { i \in Candidates(level) : RowWeight(data_df[i]) > 0 }
                drawn == IF positive # {} THEN positive ELSE Candidates(level)
            IN  \E i \in drawn :
                    ret' = <<data_df[i].word, data_df[i].class, data_df[i].level>>
    /\ UNCHANGED <<pc, data_df, word_weights, file, save_failures>>

update_word_performance(e, is_correct, ok) ==
    /\ pc = "ready"
    /\ LET k == word_key(e.word, e.class, e.level)
           created == IF k \in DOMAIN word_weights
                      THEN word_weights
                      ELSE Put(word_weights, k, DefaultRecord)
           attempted == AttemptedStats(created[k], is_correct)
       IN  IF WellFormed(created[k])
           THEN LET store == [created EXCEPT ![k] = UpdatedStats(created[k], is_correct)]
                IN  /\ word_weights' = store
                    /\ _save_weights(store, ok)
                    /\ call' = [op |-> "update_word_performance", key |-> RowKey(e),
                                entry |-> e, is_correct |-> is_correct,
                                save |-> ok, raised |-> FALSE]
                    /\ pc' = pc
           ELSE IF attempted.raised
           THEN \* KeyError: nothing is saved, the exception ends the program
                /\ ok = Saved
                /\ word_weights' = [created EXCEPT ![k] = attempted.rec]
                /\ call' = [op |-> "update_word_performance", key |-> RowKey(e),
                            entry |-> e, is_correct |-> is_correct,
                            save |-> NoSave, raised |-> TRUE]
                /\ pc' = "crashed"
                /\ UNCHANGED <<file, save_failures>>
           ELSE LET store == [created EXCEPT ![k] = attempted.rec]
                IN  /\ word_weights' = store
                    /\ _save_weights(store, ok)
                    /\ call' = [op |-> "update_word_performance", key |-> RowKey(e),
                                entry |-> e, is_correct |-> is_correct,
                                save |-> ok, raised |-> FALSE]
                    /\ pc' = pc
    /\ ret' = NotFound
    /\ UNCHANGED data_df

reset_word_stats(e, ok) ==
    /\ pc = "ready"
    /\ LET k == word_key(e.word, e.class, e.level)
       IN  IF k \in DOMAIN word_weights
           THEN LET store == [word_weights EXCEPT ![k] = DefaultRecord]
                IN  /\ word_weights' = store
                    /\ _save_weights(store, ok)
                    /\ call' = [op |-> "reset_word_stats", key |-> RowKey(e),
                                save |-> ok]
           ELSE /\ ok = Saved
                /\ call' = [op |-> "reset_word_stats", key |-> RowKey(e),
                            save |-> NoSave]
                /\ UNCHANGED <<word_weights, file, save_failures>>
    /\ ret' = NotFound
    /\ UNCHANGED <<pc, data_df>>

\* Variant: the reset clears the counters and keeps the weight
reset_all_stats_keeping_weight(ok) ==
    /\ pc = "ready"
    /\ LET store == [k \in DOMAIN word_weights |->
                        [DefaultRecord EXCEPT !.weight = word_weights[k].weight]]
       IN  /\ word_weights' = store
           /\ _save_weights(store, ok)
    /\ call' = [op |-> "reset_all_stats", save |-> ok]
    /\ ret' = NotFound
    /\ UNCHANGED <<pc, data_df>>

\* Variant: the reset also drops the records that had no attempt
reset_all_stats_pruning(ok) ==
    /\ pc = "ready"
    /\ LET kept == { k \in DOMAIN word_weights : word_weights[k] # DefaultRecord }
           store == [k \in kept |-> DefaultRecord]
       IN  /\ word_weights' = store
           /\ _save_weights(store, ok)
    /\ call' = [op |-> "reset_all_stats", save |-> ok]
    /\ ret' = NotFound
    /\ UNCHANGED <<pc, data_df>>

\* Variant: the reset rebuilds the store from the vocabulary alone
reset_all_stats_from_vocabulary(ok) ==
    /\ pc = "ready"
    /\ LET store == InitializedFrom(EmptyStore, data_df, 1)
       IN  /\ word_weights' = store
           /\ _save_weights(store, ok)
    /\ call' = [op |-> "reset_all_stats", save |-> ok]
    /\ ret' = NotFound
    /\ UNCHANGED <<pc, data_df>>

reset_all_stats(ok) ==
    /\ pc = "ready"
    /\ LET store == [k \in DOMAIN word_weights |-> DefaultRecord]
       IN  /\ word_weights' = store
           /\ _save_weights(store, ok)
    /\ call' = [op |-> "reset_all_stats", save |-> ok]
    /\ ret' = NotFound
    /\ UNCHANGED <<pc, data_df>>

\* The store holds fewer than n recorded outcomes
Below(n) == SumAttempts(word_weights, DOMAIN word_weights) < n

\* The word picker on a disk that takes every save: the counters are explored
\* up to MaxOutcomes recorded outcomes
Next ==
    \/ __init__(Saved) /\ UNCHANGED game
    \/ \E e \in Entries, is_correct \in BOOLEAN :
           Below(MaxOutcomes) /\ update_word_performance(e, is_correct, Saved) /\ UNCHANGED game
    \/ \E e \in Entries : reset_word_stats(e, Saved) /\ UNCHANGED game
    \/ reset_all_stats(Saved) /\ UNCHANGED game

Spec == Init /\ [][Next]_vars

\* The word picker with the draws of the game loop and a disk that may
\* refuse a save, up to MaxDrawOutcomes recorded outcomes
NextDraw ==
    \/ \E ok \in SaveOutcomes : __init__(ok) /\ UNCHANGED game
    \/ \E level \in LevelFilters : get_weighted_word(level) /\ UNCHANGED game
    \/ \E e \in Entries, is_correct \in BOOLEAN, ok \in SaveOutcomes :
           Below(MaxDrawOutcomes) /\ update_word_performance(e, is_correct, ok) /\ UNCHANGED game
    \/ \E e \in Entries, ok \in SaveOutcomes : reset_word_stats(e, ok) /\ UNCHANGED game
    \/ \E ok \in SaveOutcomes : reset_all_stats(ok) /\ UNCHANGED game

SpecDraw == Init /\ [][NextDraw]_vars

\* The word picker started on a file with malformed records
InitMalformed ==
    /\ pc = "boot"
    /\ data_df \in Vocabularies
    /\ file \in MalformedFiles
    /\ word_weights = EmptyStore
    /\ call = [op |-> "none"]
    /\ ret = NotFound
    /\ save_failures = 0
    /\ game = NoGame

NextMalformed ==
    \/ \E ok \in SaveOutcomes : __init__(ok) /\ UNCHANGED game
    \/ \E e \in Entries, is_correct \in BOOLEAN, ok \in SaveOutcomes :
           Below(MaxDrawOutcomes) /\ update_word_performance(e, is_correct, ok) /\ UNCHANGED game
    \/ \E e \in Entries, ok \in SaveOutcomes : reset_word_stats(e, ok) /\ UNCHANGED game
    \/ \E ok \in SaveOutcomes : reset_all_stats(ok) /\ UNCHANGED game

SpecMalformed == InitMalformed /\ [][NextMalformed]_vars

\* The word picker on a vocabulary whose fields contain the delimiter "_"
UnderWord == Row(<<"a", "_", "b">>, <<"c">>, A1)
UnderClass == Row(<<"a">>, <<"b", "_", "c">>, A1)

KeyEntries == {UnderWord, UnderClass, CatNoun}

InitKeys ==
    /\ pc = "boot"
    /\ data_df = <<UnderWord, UnderClass, CatNoun>>
    /\ file \in {NoFile, TornFile}
    /\ word_weights = EmptyStore
    /\ call = [op |-> "none"]
    /\ ret = NotFound
    /\ save_failures = 0
    /\ game = NoGame

NextKeys ==
    \/ \E ok \in SaveOutcomes : __init__(ok) /\ UNCHANGED game
    \/ \E e \in KeyEntries, is_correct \in BOOLEAN, ok \in SaveOutcomes :
           Below(MaxDrawOutcomes) /\ update_word_performance(e, is_correct, ok) /\ UNCHANGED game
    \/ \E e \in KeyEntries, ok \in SaveOutcomes : reset_word_stats(e, ok) /\ UNCHANGED game
    \/ \E ok \in SaveOutcomes : reset_all_stats(ok) /\ UNCHANGED game

SpecKeys == InitKeys /\ [][NextKeys]_vars

----------------------------------------------------------------------------
(* Statistics, word_picker.py:217-338.  A float that is a quotient is held  *)
(* as the pair of its numerator and denominator.                            *)

Ratio(n, d) == [num |-> n, den |-> d]
Zero == Ratio(0, 1)

\* str.endswith
endswith(s, suffix) ==
    /\ Len(suffix) <= Len(s)
    /\ SubSeq(s, Len(s) - Len(suffix) + 1, Len(s)) = suffix

\* word_key.split('_'): the pieces between the delimiters, empty ones kept
RECURSIVE split_key(_)
split_key(s) ==
    LET stops == {i \in 1..Len(s) : s[i] = "_"}
        n == CHOOSE i \in stops : \A j \in stops : i <= j
    IN  IF stops = {} THEN <<s>>
        ELSE <<SubSeq(s, 1, n - 1)>> \o split_key(SubSeq(s, n + 1, Len(s)))

RECURSIVE SumField(_, _, _)
SumField(store, keys, field) ==
    IF keys = {} THEN 0
    ELSE LET k == CHOOSE x \in keys : TRUE
         IN  store[k][field] + SumField(store, keys \ {k}, field)

\* "w['total_attempts'] >= 3 and w['correct_count'] / w['total_attempts'] >= 0.8"
is_mastered_untried(stats) == 5 * stats.correct_count >= 4 * stats.total_attempts

is_mastered_strict(stats) ==
    /\ stats.total_attempts >= 3
    /\ 5 * stats.correct_count > 4 * stats.total_attempts

is_mastered(stats) ==
    /\ stats.total_attempts >= 3
    /\ 5 * stats.correct_count >= 4 * stats.total_attempts

\* the records gathered by the loop of word_picker.py:221-223
level_words(store, level) ==
    { k \in DOMAIN store : endswith(k, <<"_">> \o level) }

LevelStatistics(store, level) ==
    LET keys == level_words(store, level)
        total_words == Cardinality(keys)
        total_attempts == SumField(store, keys, "total_attempts")
        total_correct == SumField(store, keys, "correct_count")
        mastered_words == Cardinality({k \in keys : is_mastered(store[k])})
    IN  IF keys = {}
        THEN [total_words |-> 0, total_attempts |-> 0, total_correct |-> 0,
              average_accuracy |-> Zero, mastery_level |-> Zero]
        ELSE [total_words |-> total_words,
              total_attempts |-> total_attempts,
              total_correct |-> total_correct,
              average_accuracy |->
                  IF total_attempts > 0
                  THEN Ratio(total_correct * 100, total_attempts) ELSE Zero,
              mastery_level |->
                  IF total_words > 0
                  THEN Ratio(mastered_words * 100, total_words) ELSE Zero]

get_level_statistics(level) ==
    /\ pc = "ready"
    /\ call' = [op |-> "get_level_statistics", level |-> level]
    /\ ret' = LevelStatistics(word_weights, level)
    /\ UNCHANGED <<pc, data_df, word_weights, file, save_failures>>

\* The keys that pass "len(parts) >= 3" and the level filter,
\* word_picker.py:268-276 and 310-318
Listed(store, level) ==
    { k \in DOMAIN store :
        LET parts == split_key(k)
        IN  /\ Len(parts) >= 3
            /\ level = NoLevel \/ parts[3] = lower(level) }

\* "stats['total_attempts'] >= 2 and stats['weight'] >= 1.5"
is_difficult(stats) == stats.total_attempts >= 2 /\ stats.weight >= 1500

\* The items of the two word lists.  The field key is not in the dict the
\* code builds: it records which record of the store the item was made from.
DifficultItem(store, k) ==
    LET parts == split_key(k)
        stats == store[k]
    IN  [key |-> k,
         word |-> parts[1], class |-> parts[2], level |-> parts[3],
         weight |-> stats.weight,
         accuracy |-> IF stats.total_attempts > 0
                      THEN Ratio(stats.correct_count * 100, stats.total_attempts)
                      ELSE Zero,
         attempts |-> stats.total_attempts,
         consecutive_wrong |-> stats.consecutive_wrong]

MasteredItem(store, k) ==
    LET parts == split_key(k)
        stats == store[k]
    IN  [key |-> k,
         word |-> parts[1], class |-> parts[2], level |-> parts[3],
         weight |-> stats.weight,
         accuracy |-> Ratio(stats.correct_count * 100, stats.total_attempts),
         attempts |-> stats.total_attempts,
         consecutive_correct |-> stats.consecutive_correct]

\* The arrangements of a set of keys in a list
Arrangements(keys) ==
    { seq \in [1..Cardinality(keys) -> keys] :
        \A i, j \in 1..Cardinality(keys) : seq[i] = seq[j] => i = j }

\* list[:limit] for limit >= 0
Truncated(seq, limit) == SubSeq(seq, 1, Min(limit, Len(seq)))

\* sort(key = weight, reverse = True): the sort is stable on the order in
\* which the dict holds the keys, which the store of the model does not
\* keep, so every order of records of equal weight is a possible result.
by_weight(store, keys) ==
    { seq \in Arrangements(keys) :
        \A i, j \in 1..Len(seq) :
            i < j => store[seq[i]].weight >= store[seq[j]].weight }

get_difficult_words(level, limit) ==
    /\ pc = "ready"
    /\ call' = [op |-> "get_difficult_words", level |-> level, limit |-> limit]
    /\ LET keys == {k \in Listed(word_weights, level) : is_difficult(word_weights[k])}
       IN  \E seq \in by_weight(word_weights, keys) :
               ret' = Truncated([i \in 1..Len(seq) |-> DifficultItem(word_weights, seq[i])],
                                limit)
    /\ UNCHANGED <<pc, data_df, word_weights, file, save_failures>>

\* x before y under sort(key = (accuracy, consecutive_correct), reverse = True)
MasteredBefore(x, y) ==
    \/ x.correct_count * y.total_attempts > y.correct_count * x.total_attempts
    \/ /\ x.correct_count * y.total_attempts = y.correct_count * x.total_attempts
       /\ x.consecutive_correct >= y.consecutive_correct

by_accuracy(store, keys) ==
    { seq \in Arrangements(keys) :
        \A i, j \in 1..Len(seq) :
            i < j => MasteredBefore(store[seq[i]], store[seq[j]]) }

get_mastered_words(level, limit) ==
    /\ pc = "ready"
    /\ call' = [op |-> "get_mastered_words", level |-> level, limit |-> limit]
    /\ LET keys == {k \in Listed(word_weights, level) : is_mastered(word_weights[k])}
       IN  \E seq \in by_accuracy(word_weights, keys) :
               ret' = Truncated([i \in 1..Len(seq) |-> MasteredItem(word_weights, seq[i])],
                                limit)
    /\ UNCHANGED <<pc, data_df, word_weights, file, save_failures>>

\* The record a word has after the given outcomes, oldest first
RECURSIVE Replay(_)
Replay(outcomes) ==
    IF outcomes = <<>> THEN DefaultRecord
    ELSE UpdatedStats(Replay(SubSeq(outcomes, 1, Len(outcomes) - 1)),
                      outcomes[Len(outcomes)])

StatStore(go, cat, under) ==
    Put(Put(Put(EmptyStore, RowKey(GoVerb), Replay(go)),
                            RowKey(CatNoun), Replay(cat)),
                            RowKey(UnderWord), Replay(under))

\* Weights files left by earlier sessions: the outcomes of each word
StatFiles ==
    { FileOf(StatStore(<<TRUE, TRUE, TRUE>>, <<TRUE, TRUE, TRUE, TRUE>>,
                       <<FALSE, FALSE>>)),
      FileOf(StatStore(<<FALSE, FALSE>>, <<TRUE, FALSE, FALSE>>,
                       <<FALSE, TRUE, TRUE, TRUE, TRUE>>)),
      FileOf(StatStore(<<TRUE, TRUE, TRUE, TRUE, FALSE>>, <<TRUE, TRUE, TRUE>>,
                       <<TRUE, TRUE, TRUE>>)),
      FileOf(StatStore(<<FALSE, FALSE, FALSE>>, <<FALSE, TRUE, FALSE>>,
                       <<TRUE, FALSE, FALSE>>)),
      FileOf(StatStore(<<TRUE, TRUE, FALSE>>, <<FALSE>>, <<TRUE, TRUE>>)),
      FileOf(Put(EmptyStore, RowKey(CatNoun), Replay(<<FALSE, FALSE>>))) }

StatLevels == {A1, B1, C2, <<"A", "1">>}

\* A session that opens the statistics screen, game.py:514-530
InitStats ==
    /\ pc = "boot"
    /\ data_df = <<GoVerb, CatNoun, UnderWord>>
    /\ file \in StatFiles
    /\ word_weights = EmptyStore
    /\ call = [op |-> "none"]
    /\ ret = NotFound
    /\ save_failures = 0
    /\ game = NoGame

NextStats ==
    \/ __init__(Saved) /\ UNCHANGED game
    \/ reset_all_stats(Saved) /\ UNCHANGED game
    \/ \E level \in StatLevels : get_level_statistics(level) /\ UNCHANGED game
    \/ \E level \in LevelFilters, limit \in 0..MaxLimit :
           get_difficult_words(level, limit) /\ UNCHANGED game
    \/ \E level \in LevelFilters, limit \in 0..MaxLimit :
           get_mastered_words(level, limit) /\ UNCHANGED game

SpecStats == InitStats /\ [][NextStats]_vars

----------------------------------------------------------------------------
(* Answer validation, utils.py *)

\* "if len(user_words) == 1 and len(user_words[0]) >= 3", utils.py:132-136
single_token_match_longer(user_words, meaning_words) ==
    /\ Len(user_words) = 1
    /\ Len(user_words[1]) > 3
    /\ \E j \in 1..Len(meaning_words) : user_words[1] = meaning_words[j]

single_token_match(user_words, meaning_words) ==
    /\ Len(user_words) = 1
    /\ Len(user_words[1]) >= 3
    /\ \E j \in 1..Len(meaning_words) : user_words[1] = meaning_words[j]

\* "elif len(user_words) > 1", utils.py:139-142
multi_token_match_ordered(user_words, meaning_words) ==
    /\ Len(user_words) > 1
    /\ user_words = meaning_words

multi_token_match(user_words, meaning_words) ==
    /\ Len(user_words) > 1
    /\ set(user_words) \subseteq set(meaning_words)

\* One round of the loop over valid_meanings, utils.py:120-142
meaning_accepts(user_input, meaning) ==
    LET meaning_clean == lower(strip(meaning))
        user_words == split(user_input)
        meaning_words == split(meaning_clean)
    IN  \/ user_input = meaning_clean
        \/ single_token_match(user_words, meaning_words)
        \/ multi_token_match(user_words, meaning_words)

\* variant: only the first meaning is looked at
validate_user_input_first_only(user_input, valid_meanings) ==
    IF user_input = <<>> \/ valid_meanings = <<>> THEN FALSE
    ELSE LET stripped == lower(strip(user_input))
         IN  meaning_accepts(stripped, valid_meanings[1])

\* The loop returns True at the first meaning that accepts and has no other
\* effect, so its result is the disjunction over the list.
validate_user_input(user_input, valid_meanings) ==
    IF user_input = <<>> \/ valid_meanings = <<>> THEN FALSE
    ELSE LET stripped == lower(strip(user_input))
         IN  \E i \in 1..Len(valid_meanings) :
                 meaning_accepts(stripped, valid_meanings[i])

Alphabet == {"a", "A", " "}

Inputs == UNION { [1..n -> Alphabet] : n \in 0..MaxInputLen }

MeaningPool ==
    { <<>>,
      <<" ">>,
      <<"a", "a">>,
      <<"a", "a", "a">>,
      <<"a", "a", " ", "a", "a", "a">>,
      <<"A", "a", " ", "a", " ">> }

MeaningLists == UNION { [1..n -> MeaningPool] : n \in 0..MaxMeanings }

\* The answer and the meanings of one question, then the call
InitValidate ==
    /\ pc = "asked"
    /\ data_df = <<>>
    /\ file = NoFile
    /\ word_weights = EmptyStore
    /\ call \in { [op |-> "input", user_input |-> u, valid_meanings |-> m] :
                    u \in Inputs, m \in MeaningLists }
    /\ ret = FALSE
    /\ save_failures = 0
    /\ game = NoGame

Validate ==
    /\ pc = "asked"
    /\ pc' = "validated"
    /\ call' = [call EXCEPT !.op = "validate_user_input"]
    /\ ret' = validate_user_input(call.user_input, call.valid_meanings)
    /\ UNCHANGED <<data_df, word_weights, file, save_failures>>

NextValidate == Validate /\ UNCHANGED game

SpecValidate == InitValidate /\ [][NextValidate]_vars

----------------------------------------------------------------------------
(* The game loop, game.py:208-368, with the translator, translator.py *)

Pergi == <<"p", "e", "r", "g", "i">>
Berjalan == <<"b", "e", "r", "j", "a", "l", "a", "n">>
Berangkat == <<"b", "e", "r", "a", "n", "g", "k", "a", "t">>
Kucing == <<"k", "u", "c", "i", "n", "g">>
Untuk == <<"u", "n", "t", "u", "k">>
Salah == <<"s", "a", "l", "a", "h">>
Quit == <<"q", "u", "i", "t">>
Skip == <<"s", "k", "i", "p">>
Hint == <<"h", "i", "n", "t">>

\* f"{word.lower()}_{word_class.lower()}", translator.py:55
cache_key(word, class) == lower(word) \o <<"_">> \o lower(class)

\* What the API answers, parsed, when it answers
ApiMeanings(word) == IF word = GoVerb.word THEN <<Pergi, Berjalan>> ELSE <<Kucing>>

\* The entry of fallback_dict for "go", translator.py:135; "cat" has none
fallback_dict == [w \in {GoVerb.word} |-> <<Pergi, Berjalan, Berangkat>>]

\* f"[Terjemahan untuk '{word}']", translator.py:276
Placeholder(word) ==
    <<"[", "T", "e", "r", "j", "e", "m", "a", "h", "a", "n", " ", "u", "n", "t", "u", "k", " ", "'">> \o word \o <<"'", "]">>

_get_fallback_translation(word) ==
    IF lower(word) \in DOMAIN fallback_dict
    THEN fallback_dict[lower(word)]
    ELSE <<Placeholder(word)>>

\* What one attempt of the retry loop gives, translator.py:63-109: a parsed
\* non-empty list, a reply that parses to nothing, or an exception
AttemptOutcomes == {"meanings", "empty", "error"}

\* int(os.getenv('MAX_RETRIES', 3)), translator.py:24
max_retries == 3

\* The attempts of one call as the game meets them: the API answers at the
\* last attempt, or never
ApiOutcomes == {<<"error", "empty", "meanings">>, <<"error", "empty", "error">>}

A2 == <<"a", "2">>
B2 == <<"b", "2">>
C1 == <<"c", "1">>
CefrLevels == {A1, A2, B1, B2, C1, C2}
Modes == {"custom", "adventure"}

\* default_scores of _load_top_scores, game.py:52-62
default_scores ==
    [overall |-> 0,
     by_level |-> [l \in CefrLevels |-> 0],
     by_mode |-> [m \in Modes |-> 0],
     sessions |-> <<>>]

\* default_history of _load_word_history, game.py:81-84
default_history == [recent_words |-> <<>>, wrong_words |-> <<>>]

\* The lengths kept by _add_word_to_history and _end_game,
\* game.py:104, 110, 427
RecentLimit == 50
WrongLimit == 100
SessionLimit == 20

\* The session of _play_game, the scores and the history of the game
\* object, and the translator's cache and retry count
Session(at, cache) ==
    [at |-> at, mode |-> "none", level |-> NoLevel,
     current_score |-> 0, words_attempted |-> 0, words_correct |-> 0,
     current_streak |-> 0, best_streak |-> 0,
     level_stats |-> <<>>,        \* level -> [attempted, correct]
     word |-> NotFound, meanings |-> <<>>, source |-> "none",
     answer |-> <<>>, verdict |-> FALSE,
     round |-> <<>>,              \* the steps of the round so far, in order
     top_scores |-> default_scores,
     word_history |-> default_history,
     translation_cache |-> cache,
     max_retries |-> max_retries]

AdventureLevels == {A1, A2, B1}
CustomLevels == {A1, C2}

\* _custom_mode and _adventure_mode, game.py:160-206
GameStarts ==
    {<<level, "custom">> : level \in CustomLevels} \cup {<<NoLevel, "adventure">>}

Answers == {Pergi, Untuk, Salah, Quit, Skip, Hint}

InitGame ==
    /\ pc = "boot"
    /\ data_df = <<GoVerb, CatNoun>>
    /\ file \in {NoFile, FileOf(Put(EmptyStore, RowKey(GoVerb), Once))}
    /\ word_weights = EmptyStore
    /\ call = [op |-> "none"]
    /\ ret = NotFound
    /\ save_failures = 0
    /\ game = Session("menu", <<>>)

\* The clock readings of datetime.now().isoformat(): what was stored before
\* this run carries readings up to 0, what this run stores counts from 1
Latest(entries, field) ==
    IF entries = <<>> THEN 0
    ELSE Max(0, CHOOSE t \in {entries[i][field] : i \in 1..Len(entries)} :
                    \A i \in 1..Len(entries) : entries[i][field] <= t)

\* The sessions this run has ended
SessionsEnded(sessions) ==
    Cardinality({i \in 1..Len(sessions) : sessions[i].end_time > 0})

\* _play_game(level, mode) up to the loop, game.py:208-231
_play_game(level, mode) ==
    /\ pc = "ready"
    /\ game.at = "menu"
    /\ game' = [Session("draw", game.translation_cache)
                  EXCEPT !.mode = mode, !.level = level,
                         !.top_scores = game.top_scores,
                         !.word_history = game.word_history,
                         !.max_retries = game.max_retries]
    /\ UNCHANGED <<pc, data_df, word_weights, file, call, ret, save_failures>>

\* The entry of a level in level_stats, made when the level is first met,
\* game.py:250-253, 373-376
LevelEntry(level_stats, word_level) ==
    IF word_level \in DOMAIN level_stats
    THEN level_stats[word_level]
    ELSE [attempted |-> 0, correct |-> 0]

WithLevel(level_stats, word_level, entry) ==
    [l \in DOMAIN level_stats \cup {word_level} |->
        IF l = word_level THEN entry ELSE level_stats[l]]

\* The draw of a round, game.py:233-253
draw_word ==
    /\ game.at = "draw"
    /\ \E current_level \in (IF game.mode = "adventure"
                              THEN AdventureLevels ELSE {game.level}) :
           get_weighted_word(current_level)
    /\ game' = IF ret' = NotFound
               THEN [game EXCEPT !.at = "menu"]
               ELSE [game EXCEPT !.at = "translate", !.word = ret',
                                 !.meanings = <<>>, !.source = "none",
                                 !.answer = <<>>, !.verdict = FALSE,
                                 !.round = <<"draw">>,
                                 !.level_stats =
                                     WithLevel(@, ret'[3], LevelEntry(@, ret'[3]))]

\* The retry loop of translate_word, translator.py:63-109, from attempt
\* number `attempt` (counted from 0): the first attempt that gives meanings
\* ends it, and range(max_retries) bounds it
RECURSIVE retry(_, _, _)
retry(word, api, attempt) ==
    IF attempt >= Len(api)
    THEN [meanings |-> _get_fallback_translation(word),
          source |-> IF lower(word) \in DOMAIN fallback_dict
                     THEN "fallback" ELSE "placeholder",
          attempts |-> attempt]
    ELSE IF api[attempt + 1] = "meanings"
    THEN [meanings |-> ApiMeanings(word), source |-> "api",
          attempts |-> attempt + 1]
    ELSE retry(word, api, attempt + 1)

\* Variant: one attempt more than max_retries
translate_word_extra_attempt(word, class, cache, api) ==
    IF cache_key(word, class) \in DOMAIN cache
    THEN [meanings |-> cache[cache_key(word, class)], source |-> "cache",
          attempts |-> 0]
    ELSE IF \E i \in 1..Len(api) : api[i] = "meanings"
    THEN retry(word, api, 0)
    ELSE [retry(word, api, 0) EXCEPT !.attempts = @ + 1]

\* translate_word, translator.py:43-113: the cached list, or the parsed
\* answer of the API, or the fallback; its source and the number of API
\* calls made.  api[i] is what the i-th attempt gives, for max_retries
\* attempts.
translate_word(word, class, cache, api) ==
    IF cache_key(word, class) \in DOMAIN cache
    THEN [meanings |-> cache[cache_key(word, class)], source |-> "cache",
          attempts |-> 0]
    ELSE retry(word, api, 0)

\* Variant: what the fallback gives is cached too
translation_cache_keeping_fallback(word, class, cache, got) ==
    IF got.source # "cache"
    THEN [k \in DOMAIN cache \cup {cache_key(word, class)} |->
            IF k = cache_key(word, class) THEN got.meanings ELSE cache[k]]
    ELSE cache

\* The cache after translate_word returned `got`, translator.py:93-97
translation_cache(word, class, cache, got) ==
    IF got.source = "api"
    THEN [k \in DOMAIN cache \cup {cache_key(word, class)} |->
            IF k = cache_key(word, class) THEN got.meanings ELSE cache[k]]
    ELSE cache

\* The translation of the drawn word, game.py:267-279
translate(api) ==
    /\ game.at = "translate"
    /\ Len(api) = game.max_retries
    /\ LET word == game.word[1]
           class == game.word[2]
           got == translate_word(word, class, game.translation_cache, api)
       IN  game' = [game EXCEPT
                      !.at = IF got.meanings = <<>> THEN "draw" ELSE "prompt",
                      !.meanings = got.meanings,
                      !.source = got.source,
                      !.round = @ \o <<"translate">>,
                      !.translation_cache =
                          translation_cache(word, class, @, got)]
    /\ UNCHANGED <<pc, data_df, word_weights, file, call, ret, save_failures>>

Drawn_entry == Row(game.word[1], game.word[2], game.word[3])

\* _update_session_stats, game.py:371-383
_update_session_stats(g, word_level, is_correct) ==
    [g EXCEPT
       !.words_attempted = @ + 1,
       !.words_correct = IF is_correct THEN @ + 1 ELSE @,
       !.level_stats =
           WithLevel(@, word_level,
               [attempted |-> LevelEntry(@, word_level).attempted + 1,
                correct |-> LevelEntry(@, word_level).correct
                              + (IF is_correct THEN 1 ELSE 0)])]

\* list[:limit]
Head_(list, limit) == SubSeq(list, 1, Min(Len(list), limit))

\* list[-limit:]
Tail_(list, limit) == SubSeq(list, Max(1, Len(list) - limit + 1), Len(list))

\* Variant: the new entry goes to the end of the lists
_add_word_to_history_appending(g, e, is_correct, meanings) ==
    LET word_entry == [word |-> e.word, class |-> e.class, level |-> e.level,
                       timestamp |-> Latest(g.word_history.recent_words,
                                            "timestamp") + 1]
    IN  [g EXCEPT
           !.word_history.recent_words =
               Head_(@ \o <<word_entry>>, RecentLimit),
           !.word_history.wrong_words =
               IF is_correct THEN @
               ELSE Head_(@ \o <<word_entry>>, WrongLimit)]

\* _add_word_to_history, game.py:92-113
_add_word_to_history(g, e, is_correct, meanings) ==
    LET word_entry == [word |-> e.word, class |-> e.class, level |-> e.level,
                       timestamp |-> Latest(g.word_history.recent_words,
                                            "timestamp") + 1]
    IN  [g EXCEPT
           !.word_history.recent_words =
               Head_(<<word_entry>> \o @, RecentLimit),
           !.word_history.wrong_words =
               IF is_correct THEN @
               ELSE Head_(<<word_entry>> \o @, WrongLimit)]

\* What is looked at of the copy of session_stats that _end_game appends,
\* game.py:420-424
SessionEntry(g) ==
    [final_score |-> g.current_score,
     end_time |-> Latest(g.top_scores.sessions, "end_time") + 1]

\* Variant: the overall high score is not looked at
_end_game_overall_kept(g) ==
    LET top == g.top_scores
        score == g.current_score
    IN  [g EXCEPT
           !.at = "menu",
           !.top_scores =
               [overall |-> top.overall,
                by_level |->
                    IF g.mode = "custom" /\ g.level # NoLevel
                    THEN [top.by_level EXCEPT ![g.level] = Max(@, score)]
                    ELSE top.by_level,
                by_mode |-> [top.by_mode EXCEPT ![g.mode] = Max(@, score)],
                sessions |->
                    Tail_(top.sessions \o <<SessionEntry(g)>>, SessionLimit)]]

\* _end_game(mode, level), game.py:385-432, for the session g
_end_game(g) ==
    LET top == g.top_scores
        score == g.current_score
    IN  [g EXCEPT
           !.at = "menu",
           !.top_scores =
               [overall |-> Max(top.overall, score),
                by_level |->
                    IF g.mode = "custom" /\ g.level # NoLevel
                    THEN [top.by_level EXCEPT ![g.level] = Max(@, score)]
                    ELSE top.by_level,
                by_mode |-> [top.by_mode EXCEPT ![g.mode] = Max(@, score)],
                sessions |->
                    Tail_(top.sessions \o <<SessionEntry(g)>>, SessionLimit)]]

\* Variant: a correct answer is counted in the score and the streak but
\* not in the best streak
correct_answer_streak_unkept(g) ==
    LET counted == _update_session_stats(
                       [g EXCEPT !.current_score = @ + 1,
                                 !.current_streak = @ + 1],
                       Drawn_entry.level, TRUE)
    IN  [_add_word_to_history(counted, Drawn_entry, TRUE, g.meanings)
           EXCEPT !.at = "draw"]

\* The correct branch, game.py:320-343
correct_answer(g) ==
    LET counted == _update_session_stats(
                       [g EXCEPT !.current_score = @ + 1,
                                 !.current_streak = @ + 1],
                       Drawn_entry.level, TRUE)
        kept == [counted EXCEPT !.best_streak = Max(@, counted.current_streak)]
    IN  [_add_word_to_history(kept, Drawn_entry, TRUE, g.meanings)
           EXCEPT !.at = "draw"]

\* Variant: a wrong answer costs the streak and the game goes on
wrong_answer_going_on(g) ==
    [_update_session_stats(
         _add_word_to_history([g EXCEPT !.current_streak = 0],
                              Drawn_entry, FALSE, g.meanings),
         Drawn_entry.level, FALSE)
       EXCEPT !.at = "draw"]

\* The wrong branch, game.py:345-368
wrong_answer(g) ==
    _end_game(
        _update_session_stats(
            _add_word_to_history([g EXCEPT !.current_streak = 0],
                                 Drawn_entry, FALSE, g.meanings),
            Drawn_entry.level, FALSE))

\* The 'skip' branch, game.py:290-306
skipped(g) ==
    [_update_session_stats(
         _add_word_to_history(g, Drawn_entry, FALSE, g.meanings),
         Drawn_entry.level, FALSE)
       EXCEPT !.at = "draw", !.round = @ \o <<"recordOutcome">>]

\* variant: a round ended by 'quit' is recorded as a wrong outcome
answer_quit_recorded(text) ==
    /\ game.at \in {"prompt", "hinted"}
    /\ LET user_answer == strip(text)
           command == IF game.at = "prompt" THEN lower(user_answer) ELSE <<>>
           asked == [game EXCEPT !.answer = user_answer,
                                 !.round = @ \o <<"prompt">>]
       IN  IF command = Quit
           THEN /\ game' = _end_game(asked)
                /\ update_word_performance(Drawn_entry, FALSE, Saved)
           ELSE IF command = Skip
           THEN /\ update_word_performance(Drawn_entry, FALSE, Saved)
                /\ game' = skipped(asked)
           ELSE IF command = Hint
           THEN /\ game' = [asked EXCEPT !.at = "hinted"]
                /\ UNCHANGED <<pc, data_df, word_weights, file, call, ret,
                               save_failures>>
           ELSE LET is_correct == validate_user_input(user_answer, game.meanings)
                    judged == [asked EXCEPT !.verdict = is_correct,
                                 !.round = @ \o <<"validate", "recordOutcome">>]
                IN  /\ update_word_performance(Drawn_entry, is_correct, Saved)
                    /\ game' = IF is_correct
                               THEN correct_answer(judged)
                               ELSE wrong_answer(judged)

\* The learner's input and what the round does with it, game.py:280-368.
\* The commands are looked for in the first input only: what is typed
\* after a hint is validated as an answer.
answer(text) ==
    /\ game.at \in {"prompt", "hinted"}
    /\ LET user_answer == strip(text)
           command == IF game.at = "prompt" THEN lower(user_answer) ELSE <<>>
           asked == [game EXCEPT !.answer = user_answer,
                                 !.round = @ \o <<"prompt">>]
       IN  IF command = Quit
           THEN /\ game' = _end_game(asked)
                /\ UNCHANGED <<pc, data_df, word_weights, file, call, ret,
                               save_failures>>
           ELSE IF command = Skip
           THEN /\ update_word_performance(Drawn_entry, FALSE, Saved)
                /\ game' = skipped(asked)
           ELSE IF command = Hint
           THEN /\ game' = [asked EXCEPT !.at = "hinted"]
                /\ UNCHANGED <<pc, data_df, word_weights, file, call, ret,
                               save_failures>>
           ELSE LET is_correct == validate_user_input(user_answer, game.meanings)
                    judged == [asked EXCEPT !.verdict = is_correct,
                                 !.round = @ \o <<"validate", "recordOutcome">>]
                IN  /\ update_word_performance(Drawn_entry, is_correct, Saved)
                    /\ game' = IF is_correct
                               THEN correct_answer(judged)
                               ELSE wrong_answer(judged)

\* _reset_level, game.py:651-677, confirmed with 'y'
_reset_level(level) ==
    /\ pc = "ready"
    /\ game.at = "menu"
    /\ game' = [game EXCEPT !.top_scores.by_level[level] = 0]
    /\ UNCHANGED <<pc, data_df, word_weights, file, call, ret, save_failures>>

\* _clear_cache, game.py:623-628, and clear_cache, translator.py:303-306
clear_cache ==
    /\ pc = "ready"
    /\ game.at = "menu"
    /\ game' = [game EXCEPT !.translation_cache = <<>>]
    /\ call' = [op |-> "clear_cache"]
    /\ UNCHANGED <<pc, data_df, word_weights, file, ret, save_failures>>

NextGame ==
    \/ __init__(Saved) /\ UNCHANGED game
    \/ /\ SessionsEnded(game.top_scores.sessions) < MaxSessions
       /\ \E start \in GameStarts : _play_game(start[1], start[2])
    \/ Below(MaxGameOutcomes) /\ draw_word
    \/ \E api \in ApiOutcomes : translate(api)
    \/ \E text \in Answers : answer(text)
    \/ \E level \in CustomLevels : _reset_level(level)
    \/ clear_cache

SpecGame == InitGame /\ [][NextGame]_vars

----------------------------------------------------------------------------
(* A later run of the game: the score and history files hold what earlier
   runs left *)

\* The history file after 99 rounds that were all missed or skipped: the 50
\* latest rounds, and all 99 as wrong
OldRound(t) ==
    [word |-> GoVerb.word, class |-> GoVerb.class, level |-> GoVerb.level,
     timestamp |-> t]

LongHistory ==
    [recent_words |-> [i \in 1..RecentLimit |-> OldRound(1 - i)],
     wrong_words |-> [i \in 1..(WrongLimit - 1) |-> OldRound(1 - i)]]

\* The score file after 19 sessions in custom mode at level a1, one of
\* them with one correct answer
LongScores ==
    [overall |-> 1,
     by_level |-> [l \in CefrLevels |-> IF l = A1 THEN 1 ELSE 0],
     by_mode |-> [m \in Modes |-> IF m = "custom" THEN 1 ELSE 0],
     sessions |-> [i \in 1..(SessionLimit - 1) |->
                     [final_score |-> IF i = 1 THEN 1 ELSE 0,
                      end_time |-> i - (SessionLimit - 1)]]]

InitScores ==
    /\ pc = "boot"
    /\ data_df = <<GoVerb>>
    /\ file = NoFile
    /\ word_weights = EmptyStore
    /\ call = [op |-> "none"]
    /\ ret = NotFound
    /\ save_failures = 0
    /\ \/ game = Session("menu", <<>>)
       \/ game = [Session("menu", <<>>) EXCEPT !.top_scores = LongScores,
                                                !.word_history = LongHistory]

NextScores ==
    \/ __init__(Saved) /\ UNCHANGED game
    \/ /\ SessionsEnded(game.top_scores.sessions) < MaxScoreSessions
       /\ \E start \in GameStarts : _play_game(start[1], start[2])
    \/ Below(MaxScoreOutcomes) /\ draw_word
    \/ \E api \in ApiOutcomes : translate(api)
    \/ \E text \in Answers : answer(text)
    \/ \E level \in CustomLevels : _reset_level(level)
    \/ clear_cache

SpecScores == InitScores /\ [][NextScores]_vars

----------------------------------------------------------------------------
(* The translator called on its own *)

\* The (word, word_class) pairs a caller passes: "cat" in two spellings,
\* and "go"
TranslatedPairs ==
    {<<CatNoun.word, CatNoun.class>>, <<<<"C", "a", "t">>, <<"N">>>>,
     <<GoVerb.word, GoVerb.class>>}

InitTranslate ==
    /\ pc = "ready"
    /\ data_df = <<GoVerb, CatNoun>>
    /\ file = NoFile
    /\ word_weights = EmptyStore
    /\ call = [op |-> "none"]
    /\ ret = NotFound
    /\ save_failures = 0
    /\ \E n \in 0..MaxRetries :
           game = [Session("menu", <<>>) EXCEPT !.max_retries = n]

\* A call of translate_word(word, word_class), translator.py:43-113
translate_call(word, class, api) ==
    /\ Len(api) = game.max_retries
    /\ LET got == translate_word(word, class, game.translation_cache, api)
       IN  /\ ret' = got
           /\ game' = [game EXCEPT !.translation_cache =
                                       translation_cache(word, class, @, got)]
    /\ call' = [op |-> "translate_word", word |-> word, class |-> class,
                api |-> api]
    /\ UNCHANGED <<pc, data_df, word_weights, file, save_failures>>

NextTranslate ==
    \/ \E pair \in TranslatedPairs,
          api \in [1..game.max_retries -> AttemptOutcomes] :
           translate_call(pair[1], pair[2], api)
    \/ clear_cache

SpecTranslate == InitTranslate /\ [][NextTranslate]_vars

----------------------------------------------------------------------------
(* Properties *)

Keys == DOMAIN word_weights

Updated == call.op = "update_word_performance"
Drawn == call.op = "get_weighted_word"

\* C1: after any sequence of recorded outcomes every record's weight lies
\* in the closed interval [0.1, 5.0].
WeightInRange ==
    \A k \in Keys : word_weights[k].weight >= 100 /\ word_weights[k].weight <= 5000

\* An outcome was recorded and the ceiling 5.0 cut the product 2.0 x 2.5 x 1.2
WeightInRange_witness ==
    /\ Updated
    /\ word_weights[call.key].weight = 5000
    /\ word_weights[call.key].total_attempts <= 3
    /\ word_weights[call.key].consecutive_wrong >= 2

\* C2: in every reachable state every record has
\* total_attempts = correct_count + wrong_count.
AttemptsAreCorrectPlusWrong ==
    \A k \in Keys :
        word_weights[k].total_attempts
            = word_weights[k].correct_count + word_weights[k].wrong_count

AttemptsAreCorrectPlusWrong_witness ==
    /\ Updated
    /\ word_weights[call.key].correct_count >= 2
    /\ word_weights[call.key].wrong_count >= 2

\* C3 as stated: at any time exactly one of consecutive_correct and
\* consecutive_wrong is non-zero, for every record.
ExactlyOneStreakNonZero ==
    \A k \in Keys :
        (word_weights[k].consecutive_correct # 0)
            # (word_weights[k].consecutive_wrong # 0)

\* C3 amended: a record with at least one recorded attempt has exactly one
\* of the two streak counters non-zero; a record with no attempt (fresh or
\* reset) has both zero.
OneStreakOnceAttempted ==
    \A k \in Keys :
        IF word_weights[k].total_attempts = 0
        THEN /\ word_weights[k].consecutive_correct = 0
             /\ word_weights[k].consecutive_wrong = 0
        ELSE (word_weights[k].consecutive_correct # 0)
                 # (word_weights[k].consecutive_wrong # 0)

\* A correct outcome has just ended a run of wrong ones
OneStreakOnceAttempted_witness ==
    /\ Updated
    /\ call.is_correct
    /\ word_weights[call.key].wrong_count >= 2
    /\ word_weights[call.key].consecutive_correct = 1
    /\ \E k \in Keys : word_weights[k].total_attempts = 0

\* C4: a record whose total_attempts is 0 has weight exactly 1.0.
UnattemptedWeightIsOne ==
    \A k \in Keys :
        word_weights[k].total_attempts = 0 => word_weights[k].weight = 1000

\* A reset has returned one record to no attempts beside an attempted one
UnattemptedWeightIsOne_witness ==
    /\ call.op = "reset_word_stats"
    /\ call.key \in Keys
    /\ word_weights[call.key].total_attempts = 0
    /\ \E k \in Keys : word_weights[k].weight > 1000

\* The record an update starts from: the stored one, or the lazily created one
Before(k) ==
    IF k \in Keys
    THEN word_weights[k]
    ELSE [ weight |-> 1000, correct_count |-> 0, wrong_count |-> 0,
           total_attempts |-> 0, last_seen |-> None,
           consecutive_correct |-> 0, consecutive_wrong |-> 0 ]

\* C5: one update_word_performance call adds 1 to total_attempts; on a
\* correct outcome it adds 1 to correct_count and consecutive_correct, zeroes
\* consecutive_wrong and keeps wrong_count; on a wrong outcome the mirror.
\* The records of all other keys are unchanged.
UpdateChangesCounters ==
    [][ Updated' =>
          LET k == call'.key
              old == Before(k)
              new == word_weights'[k]
          IN  /\ new.total_attempts = old.total_attempts + 1
              /\ IF call'.is_correct
                 THEN /\ new.correct_count = old.correct_count + 1
                      /\ new.consecutive_correct = old.consecutive_correct + 1
                      /\ new.consecutive_wrong = 0
                      /\ new.wrong_count = old.wrong_count
                 ELSE /\ new.wrong_count = old.wrong_count + 1
                      /\ new.consecutive_wrong = old.consecutive_wrong + 1
                      /\ new.consecutive_correct = 0
                      /\ new.correct_count = old.correct_count
              /\ DOMAIN word_weights' = Keys \cup {k}
              /\ \A j \in Keys \ {k} : word_weights'[j] = word_weights[j]
      ]_vars

\* A wrong outcome has ended a run of correct ones, beside another record
UpdateChangesCounters_witness ==
    /\ Updated
    /\ ~call.is_correct
    /\ word_weights[call.key].correct_count >= 2
    /\ word_weights[call.key].consecutive_wrong = 1
    /\ \E j \in Keys \ {call.key} : word_weights[j].total_attempts > 0

\* The weight of section 4.1, in thousandths, from the counters alone
AccurateAtLeast(r, percent) == 100 * r.correct_count >= percent * r.total_attempts

StatedWeight(r) ==
    LET base == IF AccurateAtLeast(r, 80) THEN 300
                ELSE IF AccurateAtLeast(r, 60) THEN 700
                ELSE IF AccurateAtLeast(r, 40) THEN 1200
                ELSE 2000
        streak == IF r.consecutive_correct >= 3 THEN 50
                  ELSE IF r.consecutive_wrong >= 2 THEN 250
                  ELSE 100
        attempt == IF r.total_attempts <= 3 THEN 120
                   ELSE IF r.total_attempts >= 10 THEN 90
                   ELSE 100
        product == (base * streak * attempt) \div 10000
    IN  IF product < 100 THEN 100 ELSE IF product > 5000 THEN 5000 ELSE product

Counters(r) ==
    <<r.correct_count, r.wrong_count, r.total_attempts,
      r.consecutive_correct, r.consecutive_wrong>>

\* C6: the weight stored by update_word_performance is the clamped product
\* base x streak x attempt of the updated counters, whatever the weight was
\* before; two records with equal counters carry equal weights.
WeightIsFunctionOfCounters ==
    /\ Updated => word_weights[call.key].weight = StatedWeight(word_weights[call.key])
    /\ \A j, k \in Keys :
           Counters(word_weights[j]) = Counters(word_weights[k])
               => word_weights[j].weight = word_weights[k].weight

\* A well-practised record (ten attempts) in the 60-80% bracket
WeightIsFunctionOfCounters_witness ==
    /\ Updated
    /\ word_weights[call.key].total_attempts >= 10
    /\ word_weights[call.key].correct_count = 7
    /\ word_weights[call.key].weight = 630

\* C7: after three correct outcomes in a row on a word its weight is at most
\* base x 0.5 x attempt-multiplier, base and attempt-multiplier being those
\* of the record after the third call.
StreakDominance ==
    \A k \in Keys :
        word_weights[k].consecutive_correct >= 3
            => word_weights[k].weight
                   <= base_weight(word_weights[k]) * 5
                          * attempt_modifier(word_weights[k])

\* Three correct outcomes after earlier wrong ones
StreakDominance_witness ==
    /\ Updated
    /\ word_weights[call.key].consecutive_correct = 3
    /\ word_weights[call.key].wrong_count >= 2

\* C8: with a level filter, get_weighted_word returns None exactly when no
\* vocabulary entry has the lower-cased filter as its level, and otherwise
\* returns a vocabulary entry of that level, never one of another level.
DrawRespectsLevel ==
    (Drawn /\ call.level # NoLevel) =>
        LET wanted == lower(call.level)
            rows == { i \in 1..Len(data_df) : data_df[i].level = wanted }
        IN  /\ (ret = NotFound) <=> (rows = {})
            /\ ret # NotFound =>
                   /\ ret[3] = wanted
                   /\ \E i \in 1..Len(data_df) :
                          ret = <<data_df[i].word, data_df[i].class, data_df[i].level>>

\* An upper-case filter found a word while the vocabulary has other levels
DrawRespectsLevel_witness ==
    /\ Drawn
    /\ call.level = <<"A", "1">>
    /\ ret # NotFound
    /\ \E i \in 1..Len(data_df) : data_df[i].level # A1

\* C9: get_weighted_word leaves the in-memory store and the persisted store
\* as they were, whether it returns a word or None.
DrawHasNoSideEffect ==
    [][ Drawn' => /\ word_weights' = word_weights
                  /\ file' = file ]_vars

\* A word was drawn from a store with recorded outcomes
DrawHasNoSideEffect_witness ==
    /\ Drawn
    /\ ret # NotFound
    /\ word_weights[word_key(ret[1], ret[2], ret[3])].total_attempts > 0

\* C10: initialization adds a default record for every vocabulary entry
\* whose key is absent from the loaded store, leaves the loaded records
\* unchanged, and afterwards every vocabulary entry has a record.
InitAddsOnlyMissing ==
    [][ call'.op = "__init__" =>
          LET loaded == IF file.exists THEN file.data ELSE EmptyStore
          IN  /\ \A k \in DOMAIN loaded :
                     k \in DOMAIN word_weights' /\ word_weights'[k] = loaded[k]
              /\ \A i \in 1..Len(data_df) :
                     LET k == RowKey(data_df[i])
                     IN  /\ k \in DOMAIN word_weights'
                         /\ k \notin DOMAIN loaded =>
                                /\ word_weights'[k].weight = 1000
                                /\ Counters(word_weights'[k]) = <<0, 0, 0, 0, 0>>
                                /\ word_weights'[k].last_seen = None
      ]_vars

\* The loaded store held an attempted record of the vocabulary and lacked another
InitAddsOnlyMissing_witness ==
    /\ call.op = "__init__"
    /\ \E i, j \in 1..Len(data_df) :
           /\ word_weights[RowKey(data_df[i])].total_attempts > 0
           /\ word_weights[RowKey(data_df[j])].total_attempts = 0

\* C11: after every update_word_performance or reset_all_stats call whose
\* save succeeds the persisted store equals the whole in-memory store,
\* earlier unsaved changes included; while no save has failed the persisted
\* store equals the in-memory store after every operation.
WriteThrough ==
    /\ [][ (/\ call'.op \in {"update_word_performance", "reset_all_stats"}
            /\ call'.save = Saved)
              => file' = FileOf(word_weights') ]_vars
    /\ []((pc = "ready" /\ save_failures = 0) => file = FileOf(word_weights))

\* A saved update has brought the file level again after a failed save
WriteThrough_witness ==
    /\ Updated
    /\ call.save = Saved
    /\ save_failures >= 1
    /\ file = FileOf(word_weights)
    /\ \A k \in Keys : word_weights[k].total_attempts > 0

\* C12: when the save of update_word_performance fails, the in-memory record
\* keeps the updated counters and weight and the persisted store is left at
\* its previous content.
FailedSaveKeepsFile ==
    [][ (Updated' /\ call'.save # Saved) =>
            /\ word_weights'[call'.key]
                   = UpdatedStats(Before(call'.key), call'.is_correct)
            /\ file' = file ]_vars

\* C13: a loaded record that lacks a field is treated as absent:
\* update_word_performance on its key does not raise and proceeds as if a
\* default record had been created for that key.
MalformedTreatedAsAbsent ==
    [][ (/\ Updated'
         /\ call'.key \in Keys
         /\ ~WellFormed(word_weights[call'.key]))
            => /\ ~call'.raised
               /\ word_weights'[call'.key]
                      = UpdatedStats(DefaultRecord, call'.is_correct) ]_vars

ResetAll == call.op = "reset_all_stats"

\* C14 as stated: from any reachable state a second reset_all_stats leaves
\* the in-memory store and the persisted store as the first one left them.
ResetAllTwiceAsOnce ==
    [][ (ResetAll /\ ResetAll') =>
            /\ word_weights' = word_weights
            /\ file' = file ]_vars

\* C14 amended: a second reset_all_stats always leaves the in-memory store
\* as the first one left it, and leaves the persisted store as the first one
\* left it when the saves of the two calls have the same outcome.
ResetAllTwiceAsOnceSameSave ==
    [][ (ResetAll /\ ResetAll') =>
            /\ word_weights' = word_weights
            /\ call'.save = call.save => file' = file ]_vars

\* All records are at their defaults after a reset of attempted records
\* whose save failed, so that a second reset can act on the file
ResetAllTwiceAsOnceSameSave_witness ==
    /\ ResetAll
    /\ call.save = Refused
    /\ file.valid
    /\ \E k \in DOMAIN file.data : file.data[k].total_attempts > 0
    /\ \A k \in Keys : word_weights[k].total_attempts = 0

\* C15: no call removes a key from the in-memory store, and reset_all_stats
\* sets every record to the defaults while keeping exactly the same keys.
RecordsNeverDeleted ==
    [][ /\ Keys \subseteq DOMAIN word_weights'
        /\ ResetAll' =>
               /\ DOMAIN word_weights' = Keys
               /\ \A k \in Keys :
                      /\ word_weights'[k].weight = 1000
                      /\ Counters(word_weights'[k]) = <<0, 0, 0, 0, 0>>
                      /\ word_weights'[k].last_seen = None ]_vars

\* A reset kept a key that is not in the vocabulary, while the file still
\* shows the attempts it had
RecordsNeverDeleted_witness ==
    /\ ResetAll
    /\ call.save = Refused
    /\ file.valid
    /\ \E k \in Keys :
           /\ \A i \in 1..Len(data_df) : RowKey(data_df[i]) # k
           /\ k \in DOMAIN file.data
           /\ file.data[k].total_attempts > 0
           /\ word_weights[k].total_attempts = 0

\* C16: vocabulary entries that differ in word, class or level have
\* distinct records: recording an outcome for one entry changes neither the
\* counters nor the weight held for another.
KeyIdentifiesEntry ==
    [][ Updated' =>
            \A i \in 1..Len(data_df) :
                (data_df[i] # call'.entry /\ RowKey(data_df[i]) \in Keys)
                    => word_weights'[RowKey(data_df[i])]
                           = word_weights[RowKey(data_df[i])] ]_vars

Validated == call.op = "validate_user_input"

Blank(s) == \A i \in 1..Len(s) : s[i] = " "

\* C17: an empty or whitespace-only input, or an empty list of meanings, is
\* rejected whatever the other argument holds.
RejectsBlankInput ==
    (Validated /\ (Blank(call.user_input) \/ call.valid_meanings = <<>>))
        => ret = FALSE

\* The normalized text and its tokens, stated on positions: the text between
\* the first and the last non-blank character in lower case, and the
\* maximal blank-free stretches of it.
Normalized(s) ==
    LET inked == {i \in 1..Len(s) : s[i] # " "}
        first == CHOOSE i \in inked : \A j \in inked : i <= j
        last == CHOOSE i \in inked : \A j \in inked : j <= i
    IN  IF inked = {} THEN <<>>
        ELSE [i \in 1..(last - first + 1) |-> LowerChar(s[first + i - 1])]

TokenSpans(s) ==
    { <<i, j>> \in (1..Len(s)) \X (1..Len(s)) :
        /\ i <= j
        /\ \A k \in i..j : s[k] # " "
        /\ i = 1 \/ s[i - 1] = " "
        /\ j = Len(s) \/ s[j + 1] = " " }

Tokens(s) == { lower(SubSeq(s, span[1], span[2])) : span \in TokenSpans(s) }

ExactMatch(i) == Normalized(call.user_input) = Normalized(call.valid_meanings[i])

\* C18: an input of exactly one token is accepted iff, for some meaning, it
\* equals the whole normalized meaning, or the token has at least 3
\* characters and is one of the tokens of that meaning.
SingleTokenRule ==
    (Validated /\ Cardinality(TokenSpans(call.user_input)) = 1) =>
        (ret = TRUE <=>
            \E i \in 1..Len(call.valid_meanings) :
                \/ ExactMatch(i)
                \/ /\ Len(Normalized(call.user_input)) >= 3
                   /\ Tokens(call.user_input) \subseteq Tokens(call.valid_meanings[i]))

\* a token of 3 characters accepted as one word of a longer meaning
SingleTokenRule_witness ==
    /\ Validated
    /\ Cardinality(TokenSpans(call.user_input)) = 1
    /\ Len(Normalized(call.user_input)) = 3
    /\ \A i \in 1..Len(call.valid_meanings) : ~ExactMatch(i)
    /\ ret = TRUE

\* The tokens of the input in reverse order, and the input typed twice
RECURSIVE join(_)
join(words) ==
    IF Len(words) = 0 THEN <<>>
    ELSE IF Len(words) = 1 THEN words[1]
    ELSE words[1] \o <<" ">> \o join(Tail(words))

Reversed(s) ==
    LET words == split(s)
    IN  join([i \in 1..Len(words) |-> words[Len(words) + 1 - i]])

Twice(s) == s \o <<" ">> \o s

\* C19: an input of more than one token is accepted iff, for some meaning,
\* it equals the normalized meaning or its set of tokens is a subset of the
\* meaning's set of tokens; the order of the tokens and their repetition do
\* not change the result.
MultiTokenRule ==
    (Validated /\ Cardinality(TokenSpans(call.user_input)) > 1) =>
        /\ ret = TRUE <=>
              \E i \in 1..Len(call.valid_meanings) :
                  \/ ExactMatch(i)
                  \/ Tokens(call.user_input) \subseteq Tokens(call.valid_meanings[i])
        /\ validate_user_input(Reversed(call.user_input), call.valid_meanings) = ret
        /\ validate_user_input(Twice(call.user_input), call.valid_meanings) = ret

\* two different tokens accepted in another order than the meaning has them
MultiTokenRule_witness ==
    /\ Validated
    /\ Cardinality(TokenSpans(call.user_input)) = 2
    /\ Cardinality(Tokens(call.user_input)) = 2
    /\ \A i \in 1..Len(call.valid_meanings) : ~ExactMatch(i)
    /\ ret = TRUE

UpperChar(c) == IF c = "a" THEN "A" ELSE c

\* The texts that differ from s in letter case or in blanks at the ends only
Respelled(s) ==
    { lower(s), [i \in 1..Len(s) |-> UpperChar(s[i])],
      <<" ">> \o s, s \o <<" ">>, lstrip(s), rstrip(s) }

\* C20: changing the case of letters, or the blanks at either end, of the
\* input or of one accepted meaning never changes the result.
CaseAndPaddingInsensitive ==
    Validated =>
        /\ \A u \in Respelled(call.user_input) :
               validate_user_input(u, call.valid_meanings) = ret
        /\ \A i \in 1..Len(call.valid_meanings) :
               \A m \in Respelled(call.valid_meanings[i]) :
                   validate_user_input(call.user_input,
                       [call.valid_meanings EXCEPT ![i] = m]) = ret

Reorderings(seq) ==
    { [i \in 1..Len(seq) |-> seq[p[i]]] :
        p \in { q \in [1..Len(seq) -> 1..Len(seq)] :
                  \A i, j \in 1..Len(seq) : q[i] = q[j] => i = j } }

LevelStats == call.op = "get_level_statistics"

\* The level of a key: what follows its last delimiter
KeyLevel(k) ==
    LET marks == {i \in 1..Len(k) : k[i] = "_"}
        last == CHOOSE i \in marks : \A j \in marks : j <= i
    IN  IF marks = {} THEN k ELSE SubSeq(k, last + 1, Len(k))

AtLevel(level) == {k \in Keys : KeyLevel(k) = level}

\* C22: on a level where no record has an attempt, or that has no record,
\* get_level_statistics returns average_accuracy 0 and mastery_level 0.
NoAttemptsNoDivision ==
    (LevelStats /\ \A k \in AtLevel(call.level) : word_weights[k].total_attempts = 0)
        => /\ ret.average_accuracy.num = 0
           /\ ret.mastery_level.num = 0

\* a level that has records, none of them attempted
NoAttemptsNoDivision_witness ==
    /\ LevelStats
    /\ AtLevel(call.level) # {}
    /\ \A k \in AtLevel(call.level) : word_weights[k].total_attempts = 0
    /\ ret.total_words = Cardinality(AtLevel(call.level))

EntryOf(k) == CHOOSE e \in {data_df[i] : i \in 1..Len(data_df)} : RowKey(e) = k

InLevel(k, level) == level = NoLevel \/ EntryOf(k).level = lower(level)

ReturnedKeys == {ret[i].key : i \in 1..Len(ret)}

\* ret lists, without repetition, min(limit, number of qualifying records)
\* of the qualifying records
ListsUpToLimit(qualifying) ==
    /\ ReturnedKeys \subseteq qualifying
    /\ \A i, j \in 1..Len(ret) : ret[i].key = ret[j].key => i = j
    /\ Len(ret) = Min(call.limit, Cardinality(qualifying))

ReportsEntry ==
    \A i \in 1..Len(ret) :
        /\ ret[i].word = EntryOf(ret[i].key).word
        /\ ret[i].class = EntryOf(ret[i].key).class
        /\ ret[i].level = EntryOf(ret[i].key).level

DifficultWords == call.op = "get_difficult_words"

DifficultKeys ==
    {k \in Keys : /\ word_weights[k].total_attempts >= 2
                  /\ word_weights[k].weight >= 1500
                  /\ InLevel(k, call.level)}

DifficultOrdered ==
    /\ ListsUpToLimit(DifficultKeys)
    /\ \A i, j \in 1..Len(ret) : i < j => ret[i].weight >= ret[j].weight
    /\ \A i \in 1..Len(ret) : \A k \in DifficultKeys \ ReturnedKeys :
           ret[i].weight >= word_weights[k].weight

\* C24: get_difficult_words returns exactly the records with at least 2
\* attempts and weight >= 1.5, of the given level when one is given, by
\* weight non-increasing, cut to limit items, each item reporting the word,
\* class and level of its entry.
DifficultWordsExact == DifficultWords => (DifficultOrdered /\ ReportsEntry)

MasteredWords == call.op = "get_mastered_words"

MasteredKeys ==
    {k \in Keys : /\ word_weights[k].total_attempts >= 3
                  /\ AccurateAtLeast(word_weights[k], 80)
                  /\ InLevel(k, call.level)}

\* accuracy of item x compared with that of item y
MoreAccurate(x, y) == x.accuracy.num * y.accuracy.den > y.accuracy.num * x.accuracy.den
AsAccurate(x, y) == x.accuracy.num * y.accuracy.den = y.accuracy.num * x.accuracy.den

\* C25: get_mastered_words returns exactly the records with at least 3
\* attempts and accuracy >= 0.80, of the given level when one is given, by
\* accuracy non-increasing and, at equal accuracy, by consecutive_correct
\* non-increasing, cut to limit items.
MasteredWordsExact ==
    MasteredWords =>
        /\ ListsUpToLimit(MasteredKeys)
        /\ \A i, j \in 1..Len(ret) : i < j =>
               \/ MoreAccurate(ret[i], ret[j])
               \/ /\ AsAccurate(ret[i], ret[j])
                  /\ ret[i].consecutive_correct >= ret[j].consecutive_correct
        /\ \A i \in 1..Len(ret) : \A k \in MasteredKeys \ ReturnedKeys :
               LET other == MasteredItem(word_weights, k)
               IN  \/ MoreAccurate(ret[i], other)
                   \/ /\ AsAccurate(ret[i], other)
                      /\ ret[i].consecutive_correct >= other.consecutive_correct

\* C26: a drawn word for which the translator obtained no meanings is
\* skipped: no outcome is recorded for it and the score and the session
\* statistics stay as they are.
SkipsUntranslated ==
    [][ game.source = "placeholder" =>
            /\ word_weights' = word_weights
            /\ game'.current_score = game.current_score
            /\ game'.words_attempted = game.words_attempted
            /\ game'.words_correct = game.words_correct ]_vars

\* The steps that may come right before a step of a round
ComesAfter(step) ==
    CASE step = "draw" -> {}
      [] step = "translate" -> {"draw"}
      [] step = "prompt" -> {"translate", "prompt"}
      [] step = "validate" -> {"prompt"}
      [] step = "recordOutcome" -> {"validate", "prompt"}

Recorded == Len(game'.round) > 0 /\ game'.round[Len(game'.round)] = "recordOutcome"
                /\ game'.round # game.round

Typed(command) == game.at = "prompt" /\ lower(game'.answer) = command

\* C27: the steps of a round come in the order draw, translate, prompt,
\* validate, recordOutcome; a round that is answered or skipped records
\* exactly one outcome, for the drawn word, equal to the validator's verdict
\* (false for a skip); a round ended by 'quit' records none and leaves the
\* store as it is.
RoundRecordsOnce ==
    /\ [](\A i \in 1..Len(game.round) :
             IF i = 1 THEN game.round[i] = "draw"
             ELSE game.round[i - 1] \in ComesAfter(game.round[i]))
    /\ [][ /\ (game.at \in {"prompt", "hinted"} /\ ~Typed(Quit) /\ ~Typed(Hint))
               => Recorded
           /\ Recorded =>
                 /\ Updated'
                 /\ call'.entry = Drawn_entry
                 /\ call'.is_correct =
                       (IF Typed(Skip) THEN FALSE
                        ELSE validate_user_input(game'.answer, game.meanings))
                 /\ game'.verdict = call'.is_correct
                 /\ word_weights'[call'.key].total_attempts
                       = word_weights[call'.key].total_attempts + 1
                 /\ \A k \in Keys \ {call'.key} : word_weights'[k] = word_weights[k]
           /\ Typed(Quit) => (~Recorded /\ word_weights' = word_weights)
           /\ (pc = "ready" /\ word_weights' # word_weights) => Recorded ]_vars

\* an answer typed after a hint, judged right and recorded
RoundRecordsOnce_witness ==
    /\ game.round = <<"draw", "translate", "prompt", "prompt", "validate",
                      "recordOutcome">>
    /\ game.verdict
    /\ Updated
    /\ call.is_correct
    /\ game.current_score = 2

\* From the 10th attempt every factor of the weight is in its last bracket
LongStreak == 10

AlwaysRight(r) == r.wrong_count = 0 /\ r.total_attempts >= LongStreak
AlwaysWrong(r) == r.correct_count = 0 /\ r.total_attempts >= 2

\* C28 as stated: the weight of a word answered correctly in a long
\* unbroken streak falls to the floor 0.1, and the weight of a word missed
\* repeatedly rises to the ceiling 5.0.
ClampBoundsAttained ==
    \A k \in Keys :
        /\ AlwaysRight(word_weights[k]) => word_weights[k].weight = 100
        /\ (AlwaysWrong(word_weights[k])
              /\ word_weights[k].total_attempts < LongStreak)
                  => word_weights[k].weight = 5000

\* C28, amended: the ceiling is attained and the floor is not.  A word missed
\* every time has weight 5.0 from its 2nd to its 9th attempt and 4.5 from the
\* 10th; a word answered correctly every time has weight 0.135 from its 10th
\* attempt, and no attempted word has a weight below 0.135.
CeilingAttainedFloorNot ==
    \A k \in Keys :
        LET r == word_weights[k]
        IN  /\ r.total_attempts > 0 => r.weight >= 135
            /\ AlwaysRight(r) => r.weight = 135
            /\ AlwaysWrong(r) =>
                  r.weight = (IF r.total_attempts < 10 THEN 5000 ELSE 4500)

\* a word missed for the second time, at the ceiling
CeilingAttainedFloorNot_witness ==
    \E k \in Keys :
        /\ Updated /\ call.key = k /\ ~call.is_correct
        /\ word_weights[k].consecutive_wrong = 2
        /\ word_weights[k].total_attempts = 2
        /\ word_weights[k].weight = 5000

\* C29: recording a wrong outcome never lowers the weight of the word.
WrongNeverLowers ==
    [][ (Updated' /\ ~call'.is_correct) =>
            word_weights'[call'.key].weight >= Before(call'.key).weight ]_vars

\* C30: recording a correct outcome never raises the weight of the word,
\* a fresh record of weight 1.0 included.
CorrectNeverRaises ==
    [][ (Updated' /\ call'.is_correct) =>
            word_weights'[call'.key].weight <= Before(call'.key).weight ]_vars

\* a correct answer that moves the accuracy from below 0.6 to 0.6
CorrectNeverRaises_witness ==
    /\ Updated
    /\ call.is_correct
    /\ word_weights[call.key].total_attempts = 5
    /\ word_weights[call.key].correct_count = 3
    /\ word_weights[call.key].weight = 700

\* The streak factor of word_picker.py:188-196 with the two tests in the
\* other order
consecutive_modifier_wrong_first(stats) ==
    IF stats.consecutive_wrong >= 2 THEN 25
    ELSE IF stats.consecutive_correct >= 3 THEN 5
    ELSE 10

\* C31: in every reachable state at most one of consecutive_correct and
\* consecutive_wrong is non-zero for each record, so consecutive_correct >= 3
\* and consecutive_wrong >= 2 never hold together, and testing the two
\* streaks in the other order gives the same factor, hence the same weight.
AtMostOneStreak ==
    \A k \in Keys :
        /\ word_weights[k].consecutive_correct = 0
               \/ word_weights[k].consecutive_wrong = 0
        /\ ~(word_weights[k].consecutive_correct >= 3
               /\ word_weights[k].consecutive_wrong >= 2)
        /\ consecutive_modifier_wrong_first(word_weights[k])
               = consecutive_modifier(word_weights[k])

\* A wrong outcome has just ended a correct streak of three or more, and
\* another record is in a wrong streak of two or more
AtMostOneStreak_witness ==
    /\ Updated
    /\ ~call.is_correct
    /\ word_weights[call.key].correct_count >= 3
    /\ word_weights[call.key].wrong_count = 1
    /\ \E k \in Keys : word_weights[k].consecutive_wrong >= 2

\* C32: no record qualifies both as difficult and as mastered: a record with
\* total_attempts >= 3 and accuracy >= 0.80 has a weight below 1.5.
MasteredNeverDifficult ==
    \A k \in Keys :
        /\ (word_weights[k].total_attempts >= 3 /\ AccurateAtLeast(word_weights[k], 80))
               => word_weights[k].weight < 1500
        /\ ~(is_difficult(word_weights[k]) /\ is_mastered(word_weights[k]))

\* The heaviest mastered record: eight correct outcomes, then two wrong ones
\* in a row, 0.3 x 2.5 x 0.9
MasteredNeverDifficult_witness ==
    /\ Updated
    /\ is_mastered(word_weights[call.key])
    /\ word_weights[call.key].consecutive_wrong >= 2
    /\ word_weights[call.key].weight = 675

\* A step that judges an answer: the input is none of the commands
Judged ==
    /\ game.at \in {"prompt", "hinted"}
    /\ ~Typed(Quit) /\ ~Typed(Skip) /\ ~Typed(Hint)

\* _end_game ran for the session: its final score is the last entry of the
\* saved sessions
Ended ==
    /\ game'.at = "menu"
    /\ SessionsEnded(game'.top_scores.sessions)
           = SessionsEnded(game.top_scores.sessions) + 1
    /\ game'.top_scores.sessions[Len(game'.top_scores.sessions)].final_score
           = game.current_score

\* C33: a session ends on the first answer the validator judges wrong: one
\* wrong outcome is recorded, _end_game runs, and no further word is drawn
\* in that session (the next draw belongs to a session started anew); an
\* answer judged right lets the session go on; a 'skip' records a wrong
\* outcome for the word and the session goes on with the score unchanged.
EndsOnFirstWrongAnswer ==
    [][ /\ (Judged /\ ~game'.verdict) =>
              /\ Updated' /\ ~call'.is_correct /\ call'.entry = Drawn_entry
              /\ word_weights'[call'.key].wrong_count
                     = word_weights[call'.key].wrong_count + 1
              /\ game'.current_score = game.current_score
              /\ Ended
        /\ (Judged /\ game'.verdict) =>
              /\ game'.at = "draw"
              /\ game'.top_scores = game.top_scores
        /\ game.at = "menu" =>
              \/ game'.at = "menu"
              \/ /\ game'.at = "draw"
                 /\ game'.words_attempted = 0
                 /\ game'.current_score = 0
                 /\ game'.round = <<>>
        /\ game'.at = "translate" => game.at = "draw"
        /\ Typed(Skip) =>
              /\ Updated' /\ ~call'.is_correct /\ call'.entry = Drawn_entry
              /\ word_weights'[call'.key].wrong_count
                     = word_weights[call'.key].wrong_count + 1
              /\ game'.at = "draw"
              /\ game'.current_score = game.current_score
              /\ game'.top_scores = game.top_scores ]_vars

\* A word was skipped, one answered right, and the third answer, judged
\* wrong, has ended the session with the score 1
EndsOnFirstWrongAnswer_witness ==
    /\ game.at = "menu"
    /\ game.round = <<"draw", "translate", "prompt", "validate", "recordOutcome">>
    /\ ~game.verdict
    /\ Updated /\ ~call.is_correct
    /\ game.words_attempted = 3
    /\ game.current_score = 1
    /\ Len(game.top_scores.sessions) = 1
    /\ game.top_scores.sessions[1].final_score = 1

RECURSIVE SumAttempted(_, _)
SumAttempted(level_stats, levels) ==
    IF levels = {} THEN 0
    ELSE LET l == CHOOSE x \in levels : TRUE
         IN  level_stats[l].attempted + SumAttempted(level_stats, levels \ {l})

\* C34: between the rounds of a session current_score = words_correct =
\* best_streak, words_correct <= words_attempted and current_streak <=
\* best_streak; for every level of level_stats correct <= attempted, and
\* the attempted counts of the levels sum to words_attempted.
SessionCountersAgree ==
    /\ game.current_score = game.words_correct
    /\ game.words_correct = game.best_streak
    /\ game.words_correct <= game.words_attempted
    /\ game.current_streak <= game.best_streak
    /\ \A l \in DOMAIN game.level_stats :
           game.level_stats[l].correct <= game.level_stats[l].attempted
    /\ SumAttempted(game.level_stats, DOMAIN game.level_stats)
           = game.words_attempted

\* An adventure session that met two levels: one word skipped, two answered
\* right
SessionCountersAgree_witness ==
    /\ game.at = "draw"
    /\ game.mode = "adventure"
    /\ DOMAIN game.level_stats = {A1, B1}
    /\ game.words_attempted = 3
    /\ game.current_score = 2
    /\ game.level_stats[A1].attempted = 2
    /\ game.level_stats[A1].correct = 1

\* A step of the settings menu that resets the high score of a level
Reset ==
    /\ game.at = "menu" /\ game'.at = "menu"
    /\ game'.top_scores # game.top_scores

\* C35: starting from default scores the stored high scores keep
\* overall >= by_mode[m] for every mode m and by_mode['custom'] >=
\* by_level[l] for every level l; after _end_game the overall high score is
\* the maximum of its previous value and the session's final score; and no
\* high score decreases except through a reset.
HighScoresOrdered ==
    /\ [](/\ \A m \in Modes :
                game.top_scores.overall >= game.top_scores.by_mode[m]
          /\ \A l \in CefrLevels :
                game.top_scores.by_mode["custom"] >= game.top_scores.by_level[l])
    /\ [][ /\ Ended => game'.top_scores.overall
                          = Max(game.top_scores.overall, game.current_score)
           /\ game'.top_scores.overall >= game.top_scores.overall
           /\ \A m \in Modes :
                 game'.top_scores.by_mode[m] >= game.top_scores.by_mode[m]
           /\ ~Reset =>
                 \A l \in CefrLevels :
                    game'.top_scores.by_level[l] >= game.top_scores.by_level[l]
         ]_vars

\* Two sessions ended in this run: the first with the score 1, in adventure
\* mode, the second, in custom mode, with the score 0, which left the
\* overall high score at 1
HighScoresOrdered_witness ==
    /\ game.at = "menu"
    /\ SessionsEnded(game.top_scores.sessions) = 2
    /\ game.top_scores.sessions[Len(game.top_scores.sessions)].final_score = 0
    /\ game.mode = "custom"
    /\ game.top_scores.overall = 1
    /\ game.top_scores.by_mode["adventure"] = 1
    /\ game.top_scores.by_mode["custom"] = 0

\* list is `old` with `entry` put first, cut to limit
PutFirst(list, old, limit) ==
    /\ Len(list) = Min(limit, Len(old) + 1)
    /\ \A i \in 2..Len(list) : list[i] = old[i - 1]
    /\ \A i \in 1..Len(old) : list[1].timestamp > old[i].timestamp

NewestFirst(list) ==
    \A i \in 1..(Len(list) - 1) : list[i].timestamp > list[i + 1].timestamp

Chronological(sessions) ==
    \A i \in 1..(Len(sessions) - 1) :
        sessions[i].end_time < sessions[i + 1].end_time

\* C36: the bounded histories keep only the most recent entries:
\* recent_words holds at most 50 entries and wrong_words at most 100, each
\* newest first, every recorded round being put first in recent_words and,
\* when it is a wrong outcome, in wrong_words; the saved sessions are at
\* most the 20 most recently finished ones, in chronological order.
HistoriesBounded ==
    /\ [](/\ Len(game.word_history.recent_words) <= RecentLimit
          /\ Len(game.word_history.wrong_words) <= WrongLimit
          /\ Len(game.top_scores.sessions) <= SessionLimit
          /\ NewestFirst(game.word_history.recent_words)
          /\ NewestFirst(game.word_history.wrong_words)
          /\ Chronological(game.top_scores.sessions))
    /\ [][ /\ IF Recorded
              THEN /\ PutFirst(game'.word_history.recent_words,
                               game.word_history.recent_words, RecentLimit)
                   /\ game'.word_history.recent_words[1].word = game.word[1]
                   /\ IF call'.is_correct
                      THEN game'.word_history.wrong_words
                               = game.word_history.wrong_words
                      ELSE /\ PutFirst(game'.word_history.wrong_words,
                                       game.word_history.wrong_words, WrongLimit)
                           /\ game'.word_history.wrong_words[1]
                                  = game'.word_history.recent_words[1]
              ELSE game'.word_history = game.word_history
           /\ game'.top_scores.sessions # game.top_scores.sessions =>
                 LET old == game.top_scores.sessions
                     new == game'.top_scores.sessions
                 IN  /\ Len(new) = Min(SessionLimit, Len(old) + 1)
                     /\ \A i \in 1..(Len(new) - 1) :
                            new[i] = old[Len(old) + 1 - Len(new) + i]
                     /\ \A i \in 1..Len(old) :
                            new[Len(new)].end_time > old[i].end_time
         ]_vars

\* All three lists are full and have dropped their oldest entry in this
\* run: two wrong outcomes were put first, two sessions were put last
HistoriesBounded_witness ==
    /\ Len(game.word_history.recent_words) = RecentLimit
    /\ Len(game.word_history.wrong_words) = WrongLimit
    /\ Len(game.top_scores.sessions) = SessionLimit
    /\ game.word_history.wrong_words[2].timestamp = 1
    /\ game.word_history.wrong_words[WrongLimit].timestamp > 2 - WrongLimit
    /\ game.top_scores.sessions[SessionLimit].end_time = 2

Translated == call.op = "translate_word"

\* C37: translate_word always returns a non-empty list of meanings: on a
\* cache miss it makes at most max_retries API attempts, stops at the first
\* attempt that gives a non-empty parsed list, and after max_retries failed
\* or empty attempts returns the fallback list, which is never empty.
TranslationNeverEmpty ==
    Translated =>
        /\ ret.meanings # <<>>
        /\ \A i \in 1..Len(ret.meanings) : ret.meanings[i] # <<>>
        /\ ret.attempts <= game.max_retries
        /\ ret.source = "cache" => ret.attempts = 0
        /\ ret.source = "api" =>
              /\ ret.attempts >= 1
              /\ call.api[ret.attempts] = "meanings"
              /\ \A i \in 1..(ret.attempts - 1) : call.api[i] # "meanings"
              /\ ret.meanings = ApiMeanings(call.word)
        /\ ret.source \in {"fallback", "placeholder"} =>
              /\ ret.attempts = game.max_retries
              /\ \A i \in 1..game.max_retries : call.api[i] # "meanings"
              /\ ret.meanings = _get_fallback_translation(call.word)

\* The first attempt raised, the second parsed to nothing, the third gave
\* meanings
TranslationNeverEmpty_witness ==
    /\ Translated
    /\ call.api = <<"error", "empty", "meanings">>
    /\ ret.source = "api"
    /\ ret.attempts = 3

SamePair(k) ==
    \E pair \in TranslatedPairs :
        /\ k = cache_key(pair[1], pair[2])
        /\ lower(pair[1]) = lower(call'.word)
        /\ lower(pair[2]) = lower(call'.class)

\* C38: once translate_word has obtained meanings from the API for a
\* (word, class) pair, every later call for the same pair, compared
\* case-insensitively, returns that list without any API call, until
\* clear_cache is called; what the fallback gives is never stored, so a
\* word that only got a fallback is tried against the API at its next call.
CacheKeepsApiMeanings ==
    [][ LET cache == game.translation_cache
            key == cache_key(call'.word, call'.class)
        IN  /\ Translated' =>
                 /\ (\E k \in DOMAIN cache : SamePair(k)) =>
                        /\ ret'.source = "cache"
                        /\ ret'.attempts = 0
                        /\ \A k \in DOMAIN cache :
                               SamePair(k) => ret'.meanings = cache[k]
                 /\ (~ \E k \in DOMAIN cache : SamePair(k)) =>
                        /\ ret'.source # "cache"
                        /\ ret'.attempts >= Min(1, game.max_retries)
                 /\ ret'.source = "api" =>
                        /\ key \in DOMAIN game'.translation_cache
                        /\ game'.translation_cache[key] = ret'.meanings
                 /\ ret'.source \in {"fallback", "placeholder"} =>
                        /\ game'.translation_cache = cache
                        /\ key \notin DOMAIN cache
                 /\ \A k \in DOMAIN cache :
                        /\ k \in DOMAIN game'.translation_cache
                        /\ game'.translation_cache[k] = cache[k]
            /\ call'.op = "clear_cache" => game'.translation_cache = <<>> ]_vars

\* "Cat" as "N" is answered from the cache that "cat" as "n" filled; "go"
\* is not in the cache
CacheKeepsApiMeanings_witness ==
    /\ Translated
    /\ call.word = <<"C", "a", "t">>
    /\ ret.source = "cache"
    /\ ret.meanings = ApiMeanings(CatNoun.word)
    /\ DOMAIN game.translation_cache = {cache_key(CatNoun.word, CatNoun.class)}

----------------------------------------------------------------------------
TypeOK ==
    /\ pc \in {"boot", "ready", "crashed"}
    /\ save_failures \in 0..MaxSaveFailures

====
